---- MODULE Spec2Model ----
(***************************************************************************)
(* A model of the IT KMITL advisor knowledge-graph repository:             *)
(*   - the schema normalizer of app.py (get_paper_count, get_all_papers),  *)
(*   - the graph assembler of graph_builder.py (KnowledgeGraphBuilder),    *)
(*   - the query layer of app.py (topic reverse index),                    *)
(*   - the cache read path of app.py (load_scopus_cache, Load Data),       *)
(*   - the batch fetch loop of fetch_all_scopus_data.py.                   *)
(*                                                                         *)
(* Python values are modelled as follows.  A str is a sequence of          *)
(* one-character strings, so that formatting, truncation and substring     *)
(* tests are computed and not assumed.  A dict with a fixed set of         *)
(* possible keys (a professor record, a paper) is a TLA+ record whose      *)
(* DOMAIN is the set of keys present.  A dict with data keys               *)
(* (topic_groups, the professors mapping) is a sequence of [k, v] entries  *)
(* with distinct keys, in insertion order.  A value that may be None is a  *)
(* tagged record (None, Str(s)).                                           *)
(***************************************************************************)
EXTENDS Integers, Sequences, FiniteSets, TLC

VARIABLES
    \* schema normalizer (app.py)
    nRec,        \* the professor record handed to the normalizer
    nCalled,     \* which of the two functions have been applied to nRec
    nCount,      \* the value get_paper_count returned
    nPapers,     \* the value get_all_papers returned
    \* graph assembler (graph_builder.py)
    gGraph,      \* KnowledgeGraphBuilder.graph, the networkx graph
    gRec,        \* the professor record under study
    gInput,      \* the record of the latest build_professor_graph call
    gResult,     \* what that call returned (the artifact) or raised
    gFirstIds,   \* the node identifiers of the first build of gRec, and
                 \* whether another record was built after it
    sPapers,     \* papers handed to add_paper_node one by one
    sNext,       \* index of the next paper of sPapers to add
    \* query layer (app.py pages)
    qProfessors, \* st.session_state.professors_data as a page reads it
    qPage,       \* the pages rendered so far
    qAllTopics,  \* all_topics of the Filter by Topic page
    qTopicProfs, \* topic_professors of the Summary page
    \* cache read path (app.py sidebar)
    fTopics,     \* the file professors_by_topics.json
    fScopus,     \* the file professors_scopus_data.json
    ssLoaded,    \* st.session_state.data_loaded
    ssProfessors,\* st.session_state.professors_data
    ssMetadata,  \* st.session_state.metadata
    lastLoad,    \* the latest Load Data click: the files and session it
                 \* found, and what load_scopus_cache returned or raised
    \* batch fetch (fetch_all_scopus_data.py fetch_all_scopus_data)
    aApiKey,     \* the api_key argument
    aProfessors, \* the professors argument
    aPc,         \* "start", "loop" (inside the for loop) or "returned"; "idle"
                 \* when the script is not run
    aWith,       \* professors_with_scopus
    aI,          \* the number of loop iterations completed
    aCache,      \* scopus_data_cache
    aSuccessful, \* successful
    aFailed,     \* failed
    aEvents,     \* the external calls and sleeps made so far, in order
    aReturn,     \* how the function returned, and the mapping it returned
    \* pipeline write path (fetch_all_scopus_data.py main)
    pCache,      \* scopus_data_cache as fetch_all_scopus_data returned it
    pAggregate,  \* the file professors_scopus_data.json
    pTopics,     \* the file professors_by_topics.json
    pGraphs,     \* the files graphs/<scopus_id>.html, by scopus_id
    pPrev,       \* the aggregate file and the artifacts as the run found them
    pPc,         \* where main is
    pI,          \* iterations of the generate_all_graphs loop completed
    pBuilder,    \* builder.graph of generate_all_graphs
    pByTopics,   \* professors_by_topics of generate_all_graphs
    pHtml,       \* graph_html waiting to be written
    pLog,        \* the build-and-write attempts made so far, in order
    \* pages of the dashboard (app.py)
    wProfessors, \* st.session_state.professors_data
    wView,       \* what the latest page render showed
    \* staff scrape (scraper.py scrape_all_professors)
    kPc,         \* "start", "loop" or "returned"; "idle" when not run
    kStaff,      \* staff_list
    kI,          \* the number of loop iterations completed
    kData,       \* professors_data
    kEvents      \* the external calls and sleeps made so far, in order

normVars == <<nRec, nCalled, nCount, nPapers>>
graphVars == <<gGraph, gRec, gInput, gResult, gFirstIds, sPapers, sNext>>
queryVars == <<qProfessors, qPage, qAllTopics, qTopicProfs>>
serveVars == <<fTopics, fScopus, ssLoaded, ssProfessors, ssMetadata, lastLoad>>
fetchVars == <<aApiKey, aProfessors, aPc, aWith, aI, aCache, aSuccessful, aFailed,
               aEvents, aReturn>>

pipeVars == <<pCache, pAggregate, pTopics, pGraphs, pPrev, pPc, pI, pBuilder,
              pByTopics, pHtml, pLog>>

pageVars == <<wProfessors, wView>>

scrapeVars == <<kPc, kStaff, kI, kData, kEvents>>

vars == <<normVars, graphVars, queryVars, serveVars, fetchVars, pipeVars, pageVars,
          scrapeVars>>

\* the variables of the other components
exceptNorm == <<graphVars, queryVars, serveVars, fetchVars, pipeVars, pageVars, scrapeVars>>
exceptGraph == <<normVars, queryVars, serveVars, fetchVars, pipeVars, pageVars, scrapeVars>>
exceptQuery == <<normVars, graphVars, serveVars, fetchVars, pipeVars, pageVars, scrapeVars>>
exceptServe == <<normVars, graphVars, queryVars, fetchVars, pipeVars, pageVars, scrapeVars>>
exceptFetch == <<normVars, graphVars, queryVars, serveVars, pipeVars, pageVars, scrapeVars>>
exceptPipe == <<normVars, graphVars, queryVars, serveVars, fetchVars, pageVars, scrapeVars>>
exceptPage == <<normVars, graphVars, queryVars, serveVars, fetchVars, pipeVars, scrapeVars>>
exceptScrape == <<normVars, graphVars, queryVars, serveVars, fetchVars, pipeVars, pageVars>>

----------------------------------------------------------------------------
(* Bounds of the model *)

MaxPapers == 2      \* longest flat papers list / topic bucket
MaxBuckets == 2     \* most buckets of a topic_groups dict
MaxTopics == 2      \* longest topics list of a professor record
MaxCitations == 60  \* largest citation count handed to add_paper_node
MaxTitleLen == 32   \* longest paper title handed to add_paper_node
MaxProfs == 3       \* longest professors list handed to fetch_all_scopus_data
MaxStaff == 3       \* longest staff list the scraper finds

----------------------------------------------------------------------------
(* Python values *)

None == [tag |-> "None", val |-> <<>>]
Str(s) == [tag |-> "str", val |-> s]

\* the outcome of a call: a returned value or a raised exception
Ok(v) == [raised |-> FALSE, val |-> v]
Raised(e) == [raised |-> TRUE, exc |-> e]

\* bool(v) for v a str or None
Truthy(v) == v.tag = "str" /\ v.val # <<>>

\* k in d, d.get(k, default) for a dict with a fixed set of possible keys
Has(d, k) == k \in DOMAIN d
Get(d, k, default) == IF k \in DOMAIN d THEN d[k] ELSE default

\* {**old, **new} / old.update(new) for dicts with a fixed set of possible keys
Merge(old, new) ==
    [k \in DOMAIN old \cup DOMAIN new |-> IF k \in DOMAIN new THEN new[k] ELSE old[k]]

\* sequences over S of length at most n
SeqsUpTo(S, n) == UNION {[1..k -> S] : k \in 0..n}

\* sequences over S of length at most n without repetition
DistinctSeqsUpTo(S, n) ==
    {s \in SeqsUpTo(S, n) : \A i, j \in 1..Len(s) : s[i] = s[j] => i = j}

\* dicts with data keys: sequences of entries with distinct keys
DictKeys(d) == {d[i].k : i \in 1..Len(d)}
DictHas(d, key) == \E i \in 1..Len(d) : d[i].k = key
DictGet(d, key) == d[CHOOSE i \in 1..Len(d) : d[i].k = key].v
DictsUpTo(K, V, n) ==
    UNION {{[i \in 1..Len(ks) |-> [k |-> ks[i], v |-> vs[i]]] :
                vs \in [1..Len(ks) -> V]} : ks \in DistinctSeqsUpTo(K, n)}

\* d[key] = value on a dict with data keys: replaces in place or appends
DictPut(d, key, value) ==
    IF DictHas(d, key)
    THEN [i \in 1..Len(d) |-> IF d[i].k = key THEN [k |-> key, v |-> value] ELSE d[i]]
    ELSE Append(d, [k |-> key, v |-> value])

RECURSIVE SumSeq(_)
SumSeq(s) == IF s = <<>> THEN 0 ELSE Head(s) + SumSeq(Tail(s))

RECURSIVE Flatten(_)
Flatten(ss) == IF ss = <<>> THEN <<>> ELSE Head(ss) \o Flatten(Tail(ss))

----------------------------------------------------------------------------
(* Data the model draws its inputs from *)

\* topic labels: "AI", "NLP"
TopicAI == <<"A", "I">>
TopicNLP == <<"N", "L", "P">>
TopicLabels == {TopicAI, TopicNLP}

\* papers as stored by ScopusClient.get_author_data: title, year, doi, citations
PaperX == [title |-> <<"X">>, year |-> <<"2", "0", "2", "4">>, doi |-> <<"d">>, citations |-> 50]
PaperY == [title |-> <<"n", "l", "p">>, year |-> <<>>, doi |-> <<>>, citations |-> 2]
PaperSet == {PaperX, PaperY}

PaperLists == SeqsUpTo(PaperSet, MaxPapers)

\* a paper dict with no year, doi or citations
PaperBare == [title |-> <<"Z">>]
GraphPaperSet == PaperSet \cup {PaperBare}

\* the records with field f set to a value of S, and the one without it
Opt(f, S) == {[x \in {} |-> 0]} \cup {[k \in {f} |-> v] : v \in S}

\* a title of n characters
TitleOfLen(n) == [i \in 1..n |-> "x"]
TopicGroupDicts == DictsUpTo(TopicLabels, PaperLists, MaxBuckets)

\* professor records as the normalizer sees them: papers and topic_groups are
\* each present or absent (artifact A, artifact B, both, neither)
NormRecords ==
    {[name |-> <<"a">>]}
    \cup {[name |-> <<"a">>, papers |-> ps] : ps \in PaperLists}
    \cup {[name |-> <<"a">>, topic_groups |-> tg] : tg \in TopicGroupDicts}
    \cup {[name |-> <<"a">>, papers |-> ps, topic_groups |-> tg] :
            ps \in PaperLists, tg \in TopicGroupDicts}

\* professor records as build_professor_graph may be handed them: scopus_id
\* absent, null, empty or a key; topics, papers and topic_groups present or
\* absent
GraphRecords ==
    {Merge(Merge(Merge(Merge([name |-> <<"a">>], k), t), ps), tg) :
        k \in Opt("scopus_id", {None, Str(<<>>), Str(<<"7">>)}),
        t \in Opt("topics", SeqsUpTo(TopicLabels, MaxTopics)),
        ps \in Opt("papers", SeqsUpTo(GraphPaperSet, MaxPapers)),
        tg \in Opt("topic_groups", {<<[k |-> TopicAI, v |-> <<PaperX, PaperY>>]>>})}

\* records of other professors built by the same builder
OtherRecords ==
    {[name |-> <<"b">>, scopus_id |-> Str(<<"8">>), image_url |-> Str(<<"u">>),
      topics |-> <<TopicAI>>, papers |-> <<PaperX>>],
     [name |-> <<"c">>, topics |-> <<TopicNLP, TopicAI>>, papers |-> <<PaperY>>]}

\* papers handed to add_paper_node: every citation count up to MaxCitations,
\* and every title length up to MaxTitleLen with and without a DOI
StylePapers ==
    {[title |-> <<"X">>, year |-> <<>>, doi |-> <<>>, citations |-> c] :
        c \in 0..MaxCitations}
    \cup {[title |-> TitleOfLen(n), year |-> <<"2", "0", "2", "4">>, doi |-> d,
           citations |-> 0] : n \in 0..MaxTitleLen, d \in {<<>>, <<"d">>}}

----------------------------------------------------------------------------
(* Schema normalizer: app.py get_paper_count, get_all_papers *)

\* professor_data['topic_groups'].values(), in insertion order
BucketLists(tg) == [i \in 1..Len(tg) |-> tg[i].v]
BucketSizes(tg) == [i \in 1..Len(tg) |-> Len(tg[i].v)]

\* variant: the topic_groups branch is tested before the papers branch
get_paper_count_buckets_first(professor_data) ==
    IF Has(professor_data, "topic_groups")
    THEN Ok(SumSeq(BucketSizes(professor_data.topic_groups)))
    ELSE IF Has(professor_data, "papers")
    THEN Ok(Len(professor_data.papers))
    ELSE Ok(0)

\* variant: the topic_groups branch counts the buckets, not their papers
get_paper_count_bucket_number(professor_data) ==
    IF Has(professor_data, "papers")
    THEN Ok(Len(professor_data.papers))
    ELSE IF Has(professor_data, "topic_groups")
    THEN Ok(Len(professor_data.topic_groups))
    ELSE Ok(0)

get_paper_count(professor_data) ==
    IF Has(professor_data, "papers")
    THEN Ok(Len(professor_data.papers))
    ELSE IF Has(professor_data, "topic_groups")
    THEN Ok(SumSeq(BucketSizes(professor_data.topic_groups)))
    ELSE Ok(0)

\* variant: the last branch subscripts topic_groups without testing for it
get_all_papers_unguarded(professor_data) ==
    IF Has(professor_data, "papers")
    THEN Ok(professor_data.papers)
    ELSE IF Has(professor_data, "topic_groups")
    THEN Ok(Flatten(BucketLists(professor_data.topic_groups)))
    ELSE Raised("KeyError")

get_all_papers(professor_data) ==
    IF Has(professor_data, "papers")
    THEN Ok(professor_data.papers)
    ELSE IF Has(professor_data, "topic_groups")
    THEN Ok(Flatten(BucketLists(professor_data.topic_groups)))
    ELSE Ok(<<>>)

----------------------------------------------------------------------------
(* Formatting *)

DigitChars == <<"0", "1", "2", "3", "4", "5", "6", "7", "8", "9">>

\* str(n) for an int n >= 0, as in an f-string
RECURSIVE Digits(_)
Digits(n) ==
    IF n < 10 THEN <<DigitChars[n + 1]>>
    ELSE Digits(n \div 10) \o <<DigitChars[(n % 10) + 1]>>

\* {v} in an f-string, for v a str or None
Fmt(v) == IF v.tag = "None" THEN <<"N", "o", "n", "e">> ELSE v.val

----------------------------------------------------------------------------
(* config.py *)

NodeSizeProfessor == 60
NodeSizeTopic == 45
NodeSizePaper == 35
EdgeColorExpertise == "#94a3b8"
EdgeColorAuthored == "#cbd5e1"

\* graph_builder.py add_paper_node: the cap on a paper node's size and the
\* number of title characters its label keeps
PaperSizeCap == 50
TitleBudget == 30

----------------------------------------------------------------------------
(* networkx.Graph as KnowledgeGraphBuilder uses it.  nodes is a dict from  *)
(* node identifier to attribute dict, in insertion order; edges is a set   *)
(* of undirected edges, each with the set of its (one or two) end nodes.   *)
(* A builder value b carries the graph and whether a call has raised; once *)
(* raised, the remaining calls of the same method are skipped.             *)

EmptyGraph == [nodes |-> <<>>, edges |-> {}]

\* Graph.add_node(id, **attrs): None is no node; an existing node's
\* attributes are updated in place
nx_add_node(b, id, attrs) ==
    IF b.raised THEN b
    ELSE IF id.tag = "None" THEN [b EXCEPT !.raised = TRUE]
    ELSE [b EXCEPT !.graph.nodes =
            DictPut(@, id, IF DictHas(@, id) THEN Merge(DictGet(@, id), attrs) ELSE attrs)]

\* Graph.add_edge(u, v, **attrs): adds missing end nodes, one edge per pair
nx_add_edge(b, u, v, attrs) ==
    IF b.raised THEN b
    ELSE IF u.tag = "None" \/ v.tag = "None" THEN [b EXCEPT !.raised = TRUE]
    ELSE LET withU == IF DictHas(b.graph.nodes, u) THEN b.graph.nodes
                      ELSE Append(b.graph.nodes, [k |-> u, v |-> [x \in {} |-> 0]])
             withV == IF DictHas(withU, v) THEN withU
                      ELSE Append(withU, [k |-> v, v |-> [x \in {} |-> 0]])
             others == {e \in b.graph.edges : e.ends # {u, v}}
         IN  [b EXCEPT !.graph = [nodes |-> withV,
                                  edges |-> others \cup {Merge([ends |-> {u, v}], attrs)}]]

----------------------------------------------------------------------------
(* KnowledgeGraphBuilder *)

\* variant: the graph of the previous build is kept
clear_graph_keep(b) == [graph |-> b.graph, raised |-> FALSE]

\* clear_graph
clear_graph(b) == [graph |-> EmptyGraph, raised |-> FALSE]

\* add_professor_node(professor_id, name, image_url)
add_professor_node(b, professor_id, name, image_url) ==
    nx_add_node(b, professor_id,
        [label |-> name,
         node_type |-> "professor",
         title |-> <<"<b>">> \o name \o
                   <<"</b><br><span style='color:#666'>Click to view profile</span>">>,
         image |-> image_url,
         size |-> NodeSizeProfessor,
         shape |-> IF Truthy(image_url) THEN "circularImage" ELSE "dot"])

\* add_topic_node(topic_id, topic_name)
add_topic_node(b, topic_id, topic_name) ==
    nx_add_node(b, topic_id,
        [label |-> topic_name,
         node_type |-> "topic",
         title |-> <<"<b>">> \o topic_name \o
                   <<"</b><br><span style='color:#666'>Research Area</span>">>,
         size |-> NodeSizeTopic,
         shape |-> "dot"])

Min(a, b) == IF a <= b THEN a ELSE b

\* variant: the size is not capped
PaperNodeSizeUncapped(citations) == NodeSizePaper + citations \div 3

\* the size of a paper node: min(NODE_SIZES['paper'] + citations // 3, 50)
PaperNodeSize(citations) == Min(NodeSizePaper + citations \div 3, PaperSizeCap)

\* variant: a title of exactly TitleBudget characters is cut as well
DisplayTitleAtBudget(title) ==
    IF Len(title) >= TitleBudget
    THEN SubSeq(title, 1, TitleBudget) \o <<".", ".", ".">>
    ELSE title

\* the display title: title[:30] + "..." if len(title) > 30 else title
DisplayTitle(title) ==
    IF Len(title) > TitleBudget
    THEN SubSeq(title, 1, TitleBudget) \o <<".", ".", ".">>
    ELSE title

\* add_paper_node(paper_id, title, year, citations, doi)
add_paper_node(b, paper_id, title, year, citations, doi) ==
    LET hasLink == doi # <<>>
        doi_link == <<"https://doi.org/">> \o doi
        tooltip_link ==
            IF hasLink
            THEN <<"<br><a href=\"">> \o doi_link \o
                 <<"\" target=\"_blank\" style=\"color:#3b82f6\">View Paper</a>">>
            ELSE <<>>
        tooltip == <<"<div style='max-width:300px'><b>">> \o title \o
                   <<"</b><br><br>Year: ">> \o year \o
                   <<"<br>Citations: ">> \o Digits(citations) \o tooltip_link \o
                   <<"</div>">>
        attrs == [label |-> DisplayTitle(title),
                  node_type |-> "paper",
                  title |-> tooltip,
                  size |-> PaperNodeSize(citations),
                  shape |-> "dot"]
    IN  nx_add_node(b, paper_id,
                    IF hasLink THEN Merge(attrs, [url |-> doi_link]) ELSE attrs)

\* add_edge(source, target, edge_type, width, color) with an explicit color
add_edge(b, source, target, edge_type, width, color) ==
    nx_add_edge(b, source, target, [title |-> edge_type, width |-> width, color |-> color])

\* variant: a topic node is identified by its label instead of its position
TopicIdByLabel(prof_id, i, topic) ==
    Str(<<"t", "o", "p", "i", "c", "_">> \o Fmt(prof_id) \o <<"_">> \o topic)

\* f"topic_{prof_id}_{i}", i the position enumerate gives (from 0)
TopicId(prof_id, i, topic) ==
    Str(<<"t", "o", "p", "i", "c", "_">> \o Fmt(prof_id) \o <<"_">> \o Digits(i))

\* f"paper_{prof_id}_{i}"
PaperId(prof_id, i) ==
    Str(<<"p", "a", "p", "e", "r", "_">> \o Fmt(prof_id) \o <<"_">> \o Digits(i))

\* the topics loop of build_professor_graph from position i on
RECURSIVE AddTopics(_, _, _, _)
AddTopics(b, prof_id, topics, i) ==
    IF i >= Len(topics) THEN b
    ELSE LET topic_id == TopicId(prof_id, i, topics[i + 1])
             b1 == add_topic_node(b, topic_id, topics[i + 1])
             b2 == add_edge(b1, prof_id, topic_id, "expertise", 4, EdgeColorExpertise)
         IN  AddTopics(b2, prof_id, topics, i + 1)

\* the papers loop of build_professor_graph from position i on
RECURSIVE AddPapers(_, _, _, _)
AddPapers(b, prof_id, papers, i) ==
    IF i >= Len(papers) THEN b
    ELSE LET paper == papers[i + 1]
             paper_id == PaperId(prof_id, i)
             b1 == add_paper_node(b, paper_id,
                                  Get(paper, "title", <<"Untitled">>),
                                  Get(paper, "year", <<>>),
                                  Get(paper, "citations", 0),
                                  Get(paper, "doi", <<>>))
             b2 == add_edge(b1, prof_id, paper_id, "authored", 2, EdgeColorAuthored)
         IN  AddPapers(b2, prof_id, papers, i + 1)

\* the PyVis document generated from the graph: from_nx copies nodes and
\* edges, and a node with a url gets "Click to open" appended to its tooltip
GenerateHtml(graph) ==
    [nodes |-> [i \in 1..Len(graph.nodes) |->
                    IF Has(graph.nodes[i].v, "url")
                    THEN [graph.nodes[i] EXCEPT !.v.title =
                            @ \o <<"<br><i style=\"color:#3b82f6\">Click to open</i>">>]
                    ELSE graph.nodes[i]],
     edges |-> graph.edges]

\* build_professor_graph(professor_data) on a builder whose graph is `graph`:
\* the graph it leaves in the builder and what it returns or raises
build_professor_graph(graph, professor_data) ==
    LET b0 == clear_graph([graph |-> graph, raised |-> FALSE])
        prof_id == Get(professor_data, "scopus_id", Str(<<"p", "r", "o", "f", "_", "1">>))
        prof_name == Get(professor_data, "name", <<"Unknown">>)
        prof_image == Get(professor_data, "image_url", None)
        b1 == add_professor_node(b0, prof_id, prof_name, prof_image)
        b2 == AddTopics(b1, prof_id, Get(professor_data, "topics", <<>>), 0)
        b3 == AddPapers(b2, prof_id, Get(professor_data, "papers", <<>>), 0)
    IN  [graph |-> b3.graph,
         result |-> IF b3.raised THEN Raised("ValueError") ELSE Ok(GenerateHtml(b3.graph))]

----------------------------------------------------------------------------
(* Query layer: the reverse indexes app.py builds from the professors      *)
(* mapping                                                                 *)

\* professor records of a loaded aggregate: a name, topics (or none), and
\* papers flat, under topic_groups, or neither
QueryShapes ==
    {[x \in {} |-> 0],
     [papers |-> <<PaperX, PaperY>>],
     [topic_groups |-> <<[k |-> TopicNLP, v |-> <<PaperY>>],
                         [k |-> TopicAI, v |-> <<PaperX>>]>>]}

QueryRecords ==
    {Merge(Merge([name |-> n, citation_count |-> 52], t), sh) :
        n \in {<<"a">>, <<"b">>},
        t \in Opt("topics", SeqsUpTo(TopicLabels, MaxTopics)),
        sh \in QueryShapes}

\* the keys of the professors mapping
ScopusIds == {<<"7">>, <<"8">>}

QueryMappings == DictsUpTo(ScopusIds, QueryRecords, Cardinality(ScopusIds))

\* the entry the Filter by Topic page stores for a professor
TopicEntry(scopus_id, prof) ==
    [scopus_id |-> scopus_id,
     name |-> Get(prof, "name", <<"Unknown">>),
     thai_name |-> Get(prof, "thai_name", <<>>),
     citation_count |-> Get(prof, "citation_count", 0),
     paper_count |-> get_paper_count(prof).val,
     prof_data |-> prof]

\* variant: the append sits inside the 'if topic not in all_topics' block
IndexAppendFirstOnly(index, topic, entry) ==
    IF DictHas(index, topic)
    THEN index
    ELSE Append(index, [k |-> topic, v |-> <<entry>>])

\* if topic not in index: index[topic] = []; index[topic].append(entry)
IndexAppend(index, topic, entry) ==
    IF DictHas(index, topic)
    THEN DictPut(index, topic, Append(DictGet(index, topic), entry))
    ELSE Append(index, [k |-> topic, v |-> <<entry>>])

\* the inner loop: for topic in prof.get('topics', []), from position i on
RECURSIVE IndexTopics(_, _, _, _)
IndexTopics(index, topics, entry, i) ==
    IF i > Len(topics) THEN index
    ELSE IndexTopics(IndexAppend(index, topics[i], entry), topics, entry, i + 1)

\* Filter by Topic page: all_topics, over professors.items() from position i on
RECURSIVE AllTopics(_, _, _)
AllTopics(index, professors, i) ==
    IF i > Len(professors) THEN index
    ELSE AllTopics(IndexTopics(index, Get(professors[i].v, "topics", <<>>),
                               TopicEntry(professors[i].k, professors[i].v), 1),
                   professors, i + 1)

\* Summary page: topic_professors, which stores the professors' names
RECURSIVE TopicProfessors(_, _, _)
TopicProfessors(index, professors, i) ==
    IF i > Len(professors) THEN index
    ELSE TopicProfessors(IndexTopics(index, Get(professors[i].v, "topics", <<>>),
                                     Get(professors[i].v, "name", <<"Unknown">>), 1),
                         professors, i + 1)

----------------------------------------------------------------------------
(* Cache read path: app.py load_scopus_cache and the Load Data button      *)

\* a file of the cache directory: absent, or present with a JSON document,
\* or present with text json.load rejects (a write cut short)
Absent == [exists |-> FALSE]
Unreadable == [exists |-> TRUE, json |-> FALSE]
Holding(doc) == [exists |-> TRUE, json |-> TRUE, doc |-> doc]

\* a value that is a dict or None
Dict(d) == [tag |-> "dict", val |-> d]
NoDict == [tag |-> "None", val |-> <<>>]

\* bool(v) for v a dict or None
DictTruthy(v) == v.tag = "dict" /\ v.val # <<>>

\* aggregate documents the two files may hold
ProfA == [name |-> <<"a">>, scopus_id |-> Str(<<"7">>), topics |-> <<TopicAI>>,
          papers |-> <<PaperX, PaperY>>, citation_count |-> 52, document_count |-> 2]
ProfB == [name |-> <<"a">>, scopus_id |-> Str(<<"7">>), topics |-> <<TopicAI, TopicNLP>>,
          topic_groups |-> <<[k |-> TopicAI, v |-> <<PaperX>>],
                             [k |-> TopicNLP, v |-> <<PaperY>>]>>,
          citation_count |-> 52, document_count |-> 2]

FlatDocs ==
    {[metadata |-> [professor_count |-> 1, total_papers |-> 2, total_citations |-> 52],
      professors |-> <<[k |-> <<"7">>, v |-> ProfA]>>],
     [metadata |-> [professor_count |-> 0, total_papers |-> 0, total_citations |-> 0],
      professors |-> <<>>]}

TopicDocs ==
    {[metadata |-> [professor_count |-> 1, total_papers |-> 2, total_citations |-> 52,
                    grouped |-> TRUE],
      professors |-> <<[k |-> <<"7">>, v |-> ProfB]>>],
     [metadata |-> [grouped |-> TRUE]]}

FlatFileStates == {Absent, Unreadable} \cup {Holding(d) : d \in FlatDocs}
TopicFileStates == {Absent, Unreadable} \cup {Holding(d) : d \in TopicDocs}

\* with open(file) as f: cache_data = json.load(f);
\* return cache_data.get('professors', {}), cache_data.get('metadata', {})
ReadAggregate(file, source) ==
    IF ~file.json
    THEN [raised |-> TRUE, exc |-> "JSONDecodeError", source |-> source]
    ELSE [raised |-> FALSE,
          val |-> [professors |-> Dict(Get(file.doc, "professors", <<>>)),
                   metadata |-> Dict(Get(file.doc, "metadata", <<>>))],
          source |-> source]

\* variant: the flat file is tried before the topic-grouped file
load_scopus_cache_flat_first(topics_file, scopus_file) ==
    IF scopus_file.exists THEN ReadAggregate(scopus_file, "scopus")
    ELSE IF topics_file.exists THEN ReadAggregate(topics_file, "topics")
    ELSE [raised |-> FALSE, val |-> [professors |-> NoDict, metadata |-> NoDict],
          source |-> "none"]

\* load_scopus_cache(): source records which branch returned
load_scopus_cache(topics_file, scopus_file) ==
    IF topics_file.exists THEN ReadAggregate(topics_file, "topics")
    ELSE IF scopus_file.exists THEN ReadAggregate(scopus_file, "scopus")
    ELSE [raised |-> FALSE, val |-> [professors |-> NoDict, metadata |-> NoDict],
          source |-> "none"]

\* variant: the handler stores whatever the load returned
LoadDataHandlerUnchecked(session, loaded) ==
    IF loaded.raised THEN session
    ELSE [data_loaded |-> TRUE,
          professors_data |-> loaded.val.professors.val,
          metadata |-> loaded.val.metadata.val]

\* the Load Data button: the session state after the click
LoadDataHandler(session, loaded) ==
    IF loaded.raised THEN session
    ELSE IF DictTruthy(loaded.val.professors)
    THEN [data_loaded |-> TRUE,
          professors_data |-> loaded.val.professors.val,
          metadata |-> loaded.val.metadata.val]
    ELSE session

\* the session state at the start of a session
InitialSession == [data_loaded |-> FALSE, professors_data |-> <<>>, metadata |-> <<>>]

----------------------------------------------------------------------------
(* Text *)

UpperChars == <<"A", "B", "C", "D", "E", "F", "G", "H", "I", "J", "K", "L", "M",
                "N", "O", "P", "Q", "R", "S", "T", "U", "V", "W", "X", "Y", "Z">>
LowerChars == <<"a", "b", "c", "d", "e", "f", "g", "h", "i", "j", "k", "l", "m",
                "n", "o", "p", "q", "r", "s", "t", "u", "v", "w", "x", "y", "z">>

\* str.lower()
LowerChar(ch) ==
    IF \E i \in 1..Len(UpperChars) : UpperChars[i] = ch
    THEN LowerChars[CHOOSE i \in 1..Len(UpperChars) : UpperChars[i] = ch]
    ELSE ch
Lower(str) == [i \in 1..Len(str) |-> LowerChar(str[i])]

\* sub in str
Contains(sub, str) ==
    \E k \in 0..(Len(str) - Len(sub)) : SubSeq(str, k + 1, k + Len(sub)) = sub

\* int(str) for a str of decimal digits
RECURSIVE ParseInt(_)
ParseInt(str) ==
    IF str = <<>> THEN 0
    ELSE 10 * ParseInt(SubSeq(str, 1, Len(str) - 1))
         + ((CHOOSE d \in 1..10 : DigitChars[d] = str[Len(str)]) - 1)

----------------------------------------------------------------------------
(* scopus_client.py: ScopusClient.  A response of the Scopus search API is  *)
(* a transport error (requests raises) or an HTTP response with a status    *)
(* and a JSON body; body.entry stands for body['search-results']['entry'],  *)
(* and an entry's fields dc:title, prism:coverDate, prism:doi,              *)
(* citedby-count, dc:creator are written title, coverDate, doi, citedby,    *)
(* creator.                                                                 *)

HttpOk == 200
HttpUnauthorized == 401
HttpRateLimited == 429

\* the keywords of research_keywords that occur in the model's titles, in the
\* order of the list
KeywordIoT == <<"I", "o", "T">>
KeywordWeb == <<"W", "e", "b">>
ResearchKeywords == <<KeywordIoT, KeywordWeb>>

\* a keyword joins the result if it was counted TopicMinCount times or the
\* result holds fewer than TopicFill keywords; the result stops at TopicLimit
TopicMinCount == 2
TopicFill == 10
TopicLimit == 15

EntryIoT == [title |-> <<"I", "o", "T">>,
             coverDate |-> <<"2", "0", "2", "4", "-", "0", "1", "-", "0", "1">>,
             doi |-> <<"d">>, citedby |-> <<"5", "0">>, creator |-> <<"S">>]
EntryWeb == [title |-> <<"w", "e", "b", " ", "X">>, citedby |-> <<"2">>]
EntryError == [error |-> <<"e">>]

TransportError == [kind |-> "transport_error"]
HttpResponse(status, body) == [kind |-> "http", status |-> status, body |-> body]

\* what the API may answer to one author query
Responses ==
    {TransportError,
     HttpResponse(HttpUnauthorized, <<>>),
     HttpResponse(HttpRateLimited, <<>>),
     HttpResponse(HttpOk, <<>>),
     HttpResponse(HttpOk, [entry |-> <<EntryError>>]),
     HttpResponse(HttpOk, [entry |-> <<EntryError, EntryIoT>>]),
     HttpResponse(HttpOk, [entry |-> <<EntryWeb, EntryIoT>>])}

\* the keyword_counts loop of _extract_topics_from_titles over the keywords
\* from position k on, for one title
RECURSIVE CountKeywords(_, _, _)
CountKeywords(counts, title, k) ==
    IF k > Len(ResearchKeywords) THEN counts
    ELSE CountKeywords(
            IF Contains(Lower(ResearchKeywords[k]), title)
            THEN DictPut(counts, ResearchKeywords[k],
                         (IF DictHas(counts, ResearchKeywords[k])
                          THEN DictGet(counts, ResearchKeywords[k]) ELSE 0) + 1)
            ELSE counts,
            title, k + 1)

RECURSIVE KeywordCounts(_, _, _)
KeywordCounts(counts, papers, i) ==
    IF i > Len(papers) THEN counts
    ELSE KeywordCounts(CountKeywords(counts, Lower(Get(papers[i], "title", <<>>)), 1),
                       papers, i + 1)

\* sorted(items, key=count, reverse=True): stable, larger counts first
RECURSIVE SortByCount(_)
SortByCount(items) ==
    IF items = <<>> THEN <<>>
    ELSE LET rest == SortByCount(Tail(items))
             x == Head(items)
             \* x goes before the first element of rest it does not trail
             n == Cardinality({j \in 1..Len(rest) : rest[j].v > x.v})
         IN  SubSeq(rest, 1, n) \o <<x>> \o SubSeq(rest, n + 1, Len(rest))

RECURSIVE SelectKeywords(_, _, _)
SelectKeywords(sorted, i, result) ==
    IF i > Len(sorted) THEN result
    ELSE LET r1 == IF sorted[i].v >= TopicMinCount \/ Len(result) < TopicFill
                   THEN Append(result, sorted[i].k) ELSE result
         IN  IF Len(r1) >= TopicLimit THEN r1 ELSE SelectKeywords(sorted, i + 1, r1)

\* _extract_topics_from_titles(papers)
extract_topics_from_titles(papers) ==
    LET result == SelectKeywords(SortByCount(KeywordCounts(<<>>, papers, 1)), 1, <<>>)
    IN  IF result # <<>> THEN result
        ELSE <<<<"C", "o", "m", "p", "u", "t", "e", "r", " ",
                 "S", "c", "i", "e", "n", "c", "e">>>>

\* the paper dict get_author_data builds from one entry
PaperOfEntry(entry) ==
    [title |-> Get(entry, "title", <<"Untitled">>),
     year |-> IF Get(entry, "coverDate", <<>>) # <<>>
              THEN SubSeq(entry.coverDate, 1, Min(4, Len(entry.coverDate)))
              ELSE <<>>,
     doi |-> Get(entry, "doi", <<>>),
     citations |-> ParseInt(Get(entry, "citedby", <<"0">>))]

\* variant: the error entries are counted as documents
get_author_data_counting_errors(author_id, response) ==
    IF response.kind = "transport_error" THEN NoDict
    ELSE IF response.status = HttpUnauthorized THEN NoDict
    ELSE IF response.status # HttpOk THEN NoDict
    ELSE IF ~Has(response.body, "entry") THEN NoDict
    ELSE LET valid_entries == SelectSeq(response.body.entry, LAMBDA e : ~Has(e, "error"))
             papers == [i \in 1..Len(valid_entries) |-> PaperOfEntry(valid_entries[i])]
             author_data ==
                [name |-> IF valid_entries # <<>>
                          THEN Get(valid_entries[1], "creator", <<>>) ELSE <<>>,
                 document_count |-> Len(response.body.entry),
                 citation_count |-> SumSeq([i \in 1..Len(papers) |-> papers[i].citations]),
                 topics |-> extract_topics_from_titles(valid_entries),
                 papers |-> papers]
         IN  IF author_data.document_count > 0 THEN Dict(author_data) ELSE NoDict

\* get_author_data(author_id): the author data, or None
get_author_data(author_id, response) ==
    IF response.kind = "transport_error" THEN NoDict
    ELSE IF response.status = HttpUnauthorized THEN NoDict
    ELSE IF response.status # HttpOk THEN NoDict
    ELSE IF ~Has(response.body, "entry") THEN NoDict
    ELSE LET valid_entries == SelectSeq(response.body.entry, LAMBDA e : ~Has(e, "error"))
             papers == [i \in 1..Len(valid_entries) |-> PaperOfEntry(valid_entries[i])]
             author_data ==
                [name |-> IF valid_entries # <<>>
                          THEN Get(valid_entries[1], "creator", <<>>) ELSE <<>>,
                 document_count |-> Len(valid_entries),
                 citation_count |-> SumSeq([i \in 1..Len(papers) |-> papers[i].citations]),
                 topics |-> extract_topics_from_titles(valid_entries),
                 papers |-> papers]
         IN  IF author_data.document_count > 0 THEN Dict(author_data) ELSE NoDict

\* get_professor_complete_data(author_id, delay)
get_professor_complete_data(author_id, response) ==
    LET author_data == get_author_data(author_id, response)
    IN  IF ~DictTruthy(author_data) THEN Ok(NoDict)
        ELSE Ok(Dict(Merge(author_data.val, [scopus_id |-> author_id])))

\* test_connection(): whether the API key is accepted
test_connection(response) ==
    response.kind = "http" /\ response.status = HttpOk

----------------------------------------------------------------------------
(* fetch_all_scopus_data.py: fetch_all_scopus_data *)

\* professor dicts of professors_basic.json: scopus_id is null, empty or a key
BasicProfessors ==
    {[name |-> <<"a">>, scopus_id |-> k] :
        k \in {None, Str(<<>>), Str(<<"7">>), Str(<<"8">>)}}

\* professors_with_scopus = [p for p in professors if p.get('scopus_id')]
ProfessorsWithScopus(professors) ==
    SelectSeq(professors, LAMBDA p : Truthy(Get(p, "scopus_id", None)))

\* variant: a professor for whom no data is returned is not counted
LoopBodyNoneUncounted(st, professor, fetched, now) ==
    IF fetched.raised
    THEN [st EXCEPT !.failed = @ + 1]
    ELSE IF DictTruthy(fetched.val)
    THEN [cache |-> DictPut(st.cache, professor.scopus_id.val,
                     Merge(professor,
                           [topics |-> Get(fetched.val.val, "topics", <<>>),
                            papers |-> Get(fetched.val.val, "papers", <<>>),
                            document_count |-> Get(fetched.val.val, "document_count", 0),
                            citation_count |-> Get(fetched.val.val, "citation_count", 0),
                            fetched_at |-> now])),
          successful |-> st.successful + 1,
          failed |-> st.failed]
    ELSE st

\* variant: a professor for whom no data is returned counts as successful
LoopBodyNoneSuccessful(st, professor, fetched, now) ==
    IF fetched.raised
    THEN [st EXCEPT !.failed = @ + 1]
    ELSE IF DictTruthy(fetched.val)
    THEN [cache |-> DictPut(st.cache, professor.scopus_id.val,
                     Merge(professor,
                           [topics |-> Get(fetched.val.val, "topics", <<>>),
                            papers |-> Get(fetched.val.val, "papers", <<>>),
                            document_count |-> Get(fetched.val.val, "document_count", 0),
                            citation_count |-> Get(fetched.val.val, "citation_count", 0),
                            fetched_at |-> now])),
          successful |-> st.successful + 1,
          failed |-> st.failed]
    ELSE [st EXCEPT !.successful = @ + 1]

\* the try statement of the loop body: st is (scopus_data_cache, successful,
\* failed), fetched what get_professor_complete_data returned or raised
LoopBody(st, professor, fetched, now) ==
    IF fetched.raised
    THEN [st EXCEPT !.failed = @ + 1]
    ELSE IF DictTruthy(fetched.val)
    THEN [cache |-> DictPut(st.cache, professor.scopus_id.val,
                     Merge(professor,
                           [topics |-> Get(fetched.val.val, "topics", <<>>),
                            papers |-> Get(fetched.val.val, "papers", <<>>),
                            document_count |-> Get(fetched.val.val, "document_count", 0),
                            citation_count |-> Get(fetched.val.val, "citation_count", 0),
                            fetched_at |-> now])),
          successful |-> st.successful + 1,
          failed |-> st.failed]
    ELSE [st EXCEPT !.failed = @ + 1]

\* variant: the loop sleeps after every professor
FetchDelayDueAlways(i, n) == i <= n

\* if i < len(professors_with_scopus): time.sleep(delay)
FetchDelayDue(i, n) == i < n

\* events of the trace
TestEvent == [e |-> "test", id |-> <<>>]
CallEvent(id) == [e |-> "call", id |-> id]
SleepEvent == [e |-> "sleep", id |-> <<>>]

\* the line the loop body prints for a professor: Success!, No data
\* returned, or Error
PrintedOutcome(fetched) ==
    IF fetched.raised THEN "error"
    ELSE IF DictTruthy(fetched.val) THEN "success" ELSE "no_data"
PrintEvent(fetched, id) == [e |-> PrintedOutcome(fetched), id |-> id]

----------------------------------------------------------------------------
(* fetch_all_scopus_data.py: main, save_scopus_cache, generate_all_graphs  *)

\* the for loop of fetch_all_scopus_data over professors_with_scopus from
\* position i on, the API answering the i-th query with responses[i]
RECURSIVE FetchLoop(_, _, _, _)
FetchLoop(st, with, responses, i) ==
    IF i > Len(with) THEN st
    ELSE FetchLoop(LoopBody(st, with[i],
                            get_professor_complete_data(with[i].scopus_id, responses[i]),
                            i),
                   with, responses, i + 1)

\* the professors a pipeline run fetches, and what the API answers
PipeProfessors ==
    {[name |-> <<"a">>, scopus_id |-> Str(<<"7">>)],
     [name |-> <<"b">>, scopus_id |-> Str(<<"8">>)]}
PipeResponses ==
    {TransportError,
     HttpResponse(HttpOk, [entry |-> <<EntryError, EntryIoT>>]),
     HttpResponse(HttpOk, [entry |-> <<EntryWeb, EntryIoT>>])}

\* the mappings fetch_all_scopus_data returns for them
FetchedCaches ==
    UNION {{FetchLoop([cache |-> <<>>, successful |-> 0, failed |-> 0],
                      ps, rs, 1).cache :
                rs \in [1..Len(ps) -> PipeResponses]} :
           ps \in DistinctSeqsUpTo(PipeProfessors, 2)}

\* variant: total_citations sums the document counts
cache_data_wrong_total(scopus_data_cache, now) ==
    [metadata |->
        [fetched_at |-> now,
         professor_count |-> Len(scopus_data_cache),
         total_papers |->
            SumSeq([i \in 1..Len(scopus_data_cache) |->
                        Len(Get(scopus_data_cache[i].v, "papers", <<>>))]),
         total_citations |->
            SumSeq([i \in 1..Len(scopus_data_cache) |->
                        Get(scopus_data_cache[i].v, "document_count", 0)])],
     professors |-> scopus_data_cache]

\* variant: the document is written without the professors mapping
cache_data_without_mapping(scopus_data_cache, now) ==
    [metadata |->
        [fetched_at |-> now,
         professor_count |-> Len(scopus_data_cache),
         total_papers |->
            SumSeq([i \in 1..Len(scopus_data_cache) |->
                        Len(Get(scopus_data_cache[i].v, "papers", <<>>))]),
         total_citations |->
            SumSeq([i \in 1..Len(scopus_data_cache) |->
                        Get(scopus_data_cache[i].v, "citation_count", 0)])],
     professors |-> <<>>]

\* cache_data of save_scopus_cache: the document json.dump writes
cache_data(scopus_data_cache, now) ==
    [metadata |->
        [fetched_at |-> now,
         professor_count |-> Len(scopus_data_cache),
         total_papers |->
            SumSeq([i \in 1..Len(scopus_data_cache) |->
                        Len(Get(scopus_data_cache[i].v, "papers", <<>>))]),
         total_citations |->
            SumSeq([i \in 1..Len(scopus_data_cache) |->
                        Get(scopus_data_cache[i].v, "citation_count", 0)])],
     professors |-> scopus_data_cache]

\* an artifact file graphs/<scopus_id>.html: absent, opened for writing and
\* not yet written in full, or holding a document
Truncated == [exists |-> TRUE, whole |-> FALSE]
Artifact(html) == [exists |-> TRUE, whole |-> TRUE, html |-> html]

\* the try body of generate_all_graphs up to the build: professor_data with
\* the topic_groups merged in, the builder's graph, and graph_html or the
\* exception; `fails` says whether rendering the document raises
BuildArtifact(builder, scopus_id, professor_data, professors_by_topics, fails) ==
    LET data == IF DictHas(professors_by_topics, scopus_id)
                THEN Merge(professor_data,
                           [topic_groups |->
                              Get(DictGet(professors_by_topics, scopus_id),
                                  "topic_groups", <<>>)])
                ELSE professor_data
        built == build_professor_graph(builder, data)
    IN  [data |-> data, graph |-> built.graph,
         result |-> IF fails THEN Raised("Exception") ELSE built.result]

\* variant: the exception of a failed attempt leaves the loop
AfterAttemptReraise(outcome) == IF outcome = "written" THEN "loop" ELSE "raised"

\* where generate_all_graphs goes after an attempt: except Exception prints
\* the error, and the loop goes on
AfterAttempt(outcome) == "loop"

\* the store an earlier run, complete and without failures, left
StoreAfter(scopus_data_cache, now) ==
    [aggregate |-> Holding(cache_data(scopus_data_cache, now)),
     graphs |-> [id \in ScopusIds |->
                    IF DictHas(scopus_data_cache, id)
                    THEN Artifact(build_professor_graph(
                                    EmptyGraph, DictGet(scopus_data_cache, id)).result.val)
                    ELSE Absent]]

\* the mapping of an earlier run
OldCache ==
    <<[k |-> <<"7">>, v |-> ProfA],
      [k |-> <<"8">>, v |-> Merge(ProfA, [name |-> <<"b">>, scopus_id |-> Str(<<"8">>)])]>>

\* the store as a run may find it: empty, or left by an earlier run
PrevStores ==
    {[aggregate |-> Absent, graphs |-> [id \in ScopusIds |-> Absent]],
     StoreAfter(OldCache, "earlier")}

----------------------------------------------------------------------------
(* app.py pages: Filter by Topic papers, All Professors search *)

\* ', '.join(list)
RECURSIVE JoinComma(_)
JoinComma(list) ==
    IF list = <<>> THEN <<>>
    ELSE IF Len(list) = 1 THEN list[1]
    ELSE list[1] \o <<",", " ">> \o JoinComma(Tail(list))

\* list[:n]
Take(list, n) == SubSeq(list, 1, Min(n, Len(list)))

\* the All Professors table lists the first TopicsListed topics
TopicsListed == 3

\* Series.str.contains(search, case=False) for a search text of letters
\* (the text is a regular expression; letters match themselves)
StrContains(str, search) == Contains(Lower(search), Lower(str))

\* the order of characters: upper case letters before lower case letters
CharRank(ch) ==
    CHOOSE r \in 1..(Len(UpperChars) + Len(LowerChars)) :
        (UpperChars \o LowerChars)[r] = ch

\* a < b for strs of letters
RECURSIVE StrLess(_, _)
StrLess(a, b) ==
    IF b = <<>> THEN FALSE
    ELSE IF a = <<>> THEN TRUE
    ELSE IF a[1] # b[1] THEN CharRank(a[1]) < CharRank(b[1])
    ELSE StrLess(Tail(a), Tail(b))

\* df.sort_values('Name', ascending=True), rows of equal name kept in order
RECURSIVE SortByName(_)
SortByName(rows) ==
    IF rows = <<>> THEN <<>>
    ELSE LET rest == SortByName(Tail(rows))
             x == Head(rows)
             n == Cardinality({j \in 1..Len(rest) : StrLess(rest[j].Name, x.Name)})
         IN  SubSeq(rest, 1, n) \o <<x>> \o SubSeq(rest, n + 1, Len(rest))

\* prof_list of the All Professors page
ProfList(professors) ==
    [i \in 1..Len(professors) |->
        [Name |-> Get(professors[i].v, "name", <<"U", "n", "k", "n", "o", "w", "n">>),
         Topics |-> JoinComma(Take(Get(professors[i].v, "topics", <<>>), TopicsListed)),
         Papers |-> get_paper_count(professors[i].v).val,
         Citations |-> Get(professors[i].v, "citation_count", 0),
         ScopusId |-> professors[i].k]]

\* the All Professors page: the rows shown for a search text, with the
\* default sort by Name
AllProfessorsPage(professors, search) ==
    LET df == ProfList(professors)
        filtered == IF search # <<>>
                    THEN SelectSeq(df, LAMBDA row : \/ StrContains(row.Name, search)
                                                    \/ StrContains(row.Topics, search))
                    ELSE df
    IN  SortByName(filtered)

\* the quick stats of the Professor Profile page
QuickStats(selected_prof) ==
    [Papers |-> get_paper_count(selected_prof).val,
     Citations |-> Get(selected_prof, "citation_count", 0),
     Topics |-> Len(Get(selected_prof, "topics", <<>>))]

\* variant: the papers are always filtered by title
TopicPapersByTitle(prof_data, selected_topic) ==
    LET all_papers == get_all_papers(prof_data).val
        related(p) == Contains(Lower(selected_topic), Lower(Get(p, "title", <<>>)))
    IN  [branch |-> "title",
         count |-> Len(all_papers),
         shown |-> SelectSeq(all_papers, related),
         other |-> SelectSeq(all_papers, LAMBDA p : ~related(p))]

\* variant: the 'other papers' expander lists every paper
TopicPapersOtherAll(prof_data, selected_topic) ==
    LET all_papers == get_all_papers(prof_data).val
        related(p) == Contains(Lower(selected_topic), Lower(Get(p, "title", <<>>)))
    IN  IF Has(prof_data, "topic_groups") /\ DictHas(prof_data.topic_groups, selected_topic)
        THEN [branch |-> "bucket",
              count |-> Len(DictGet(prof_data.topic_groups, selected_topic)),
              shown |-> DictGet(prof_data.topic_groups, selected_topic),
              other |-> Flatten(BucketLists(
                          SelectSeq(Get(prof_data, "topic_groups", <<>>),
                                    LAMBDA e : e.k # selected_topic)))]
        ELSE [branch |-> "title",
              count |-> Len(all_papers),
              shown |-> SelectSeq(all_papers, related),
              other |-> all_papers]

\* the papers section of the Filter by Topic page for one professor: the
\* papers shown for the selected topic and those of the 'other' expander
TopicPapers(prof_data, selected_topic) ==
    LET all_papers == get_all_papers(prof_data).val
        related(p) == Contains(Lower(selected_topic), Lower(Get(p, "title", <<>>)))
    IN  IF Has(prof_data, "topic_groups") /\ DictHas(prof_data.topic_groups, selected_topic)
        THEN [branch |-> "bucket",
              count |-> Len(DictGet(prof_data.topic_groups, selected_topic)),
              shown |-> DictGet(prof_data.topic_groups, selected_topic),
              other |-> Flatten(BucketLists(
                          SelectSeq(Get(prof_data, "topic_groups", <<>>),
                                    LAMBDA e : e.k # selected_topic)))]
        ELSE [branch |-> "title",
              count |-> Len(all_papers),
              shown |-> SelectSeq(all_papers, related),
              other |-> SelectSeq(all_papers, LAMBDA p : ~related(p))]

\* records the pages read: flat, topic-grouped, both or neither, with two to
\* four topics; one has three papers under NLP and five under two others
PaperP(t) == [title |-> <<t>>, year |-> <<>>, doi |-> <<>>, citations |-> 1]
PageShapes ==
    {[x \in {} |-> 0],
     [papers |-> <<PaperX, PaperY>>],
     [topic_groups |-> <<[k |-> TopicNLP, v |-> <<PaperY>>],
                         [k |-> TopicAI, v |-> <<PaperX>>]>>],
     [topic_groups |-> <<[k |-> TopicAI, v |-> <<PaperX, PaperY>>]>>],
     [papers |-> <<PaperY>>,
      topic_groups |-> <<[k |-> TopicAI, v |-> <<PaperX>>]>>],
     [topic_groups |-> <<[k |-> KeywordIoT, v |-> <<PaperP("p"), PaperP("q")>>],
                         [k |-> TopicNLP, v |-> <<PaperP("r"), PaperP("s"), PaperP("t")>>],
                         [k |-> KeywordWeb, v |-> <<PaperP("u"), PaperP("v"), PaperP("w")>>]>>]}
PageRecords ==
    {Merge([name |-> n, citation_count |-> 52, topics |-> t], sh) :
        n \in {<<"a">>, <<"W", "e", "b">>},
        t \in {<<TopicAI, TopicNLP>>, <<TopicNLP, TopicAI, KeywordIoT, KeywordWeb>>},
        sh \in PageShapes}
PageMappings == DictsUpTo(ScopusIds, PageRecords, Cardinality(ScopusIds))

\* search texts
SearchTexts ==
    {<<>>, <<"a">>, <<"A">>, <<"n", "l", "p">>, <<"w", "e", "b">>, <<"i", "o", "t">>, <<"z">>}

----------------------------------------------------------------------------
(* scraper.py: ITKMITLScraper.scrape_all_professors *)

\* staff_info dicts of get_staff_list
StaffInfos ==
    {[name |-> <<"a">>, profile_url |-> <<"u", "a">>, image_url |-> None],
     [name |-> <<"b">>, profile_url |-> <<"u", "b">>, image_url |-> Str(<<"i">>)],
     [name |-> <<"c">>, profile_url |-> <<"u", "c">>, image_url |-> None]}

\* what a profile page request yields: it raises, or the page has no Scopus
\* link, or it has one
ProfilePages ==
    {[ok |-> FALSE],
     [ok |-> TRUE, scopus_id |-> None, thai_name |-> None],
     [ok |-> TRUE, scopus_id |-> Str(<<"7">>), thai_name |-> Str(<<"t">>)]}

\* extract_profile_data(profile_url): the defaults when the request raises
extract_profile_data(profile_url, page) ==
    IF ~page.ok
    THEN [scopus_id |-> None, scopus_url |-> None, image_url |-> None, thai_name |-> None]
    ELSE [scopus_id |-> page.scopus_id,
          scopus_url |-> IF page.scopus_id = None THEN None
                         ELSE Str(<<"s">> \o page.scopus_id.val),
          image_url |-> None,
          thai_name |-> page.thai_name]

\* a or b for optional strs
OrElse(a, b) == IF Truthy(a) THEN a ELSE b

\* professor_data of one iteration
ProfessorData(staff, profile_data) ==
    [name |-> staff.name,
     thai_name |-> OrElse(profile_data.thai_name, Str(staff.name)),
     profile_url |-> staff.profile_url,
     image_url |-> OrElse(profile_data.image_url, staff.image_url),
     scopus_id |-> profile_data.scopus_id,
     scopus_url |-> profile_data.scopus_url]

\* if i < len(staff_list): time.sleep(delay)
ScrapeDelayDue(i, n) == i < n

ListEvent == [e |-> "list", id |-> <<>>]

----------------------------------------------------------------------------
(* The components at rest: what a specification of one component fixes the *)
(* other components' variables to.                                         *)

NormIdle ==
    /\ nRec = [name |-> <<"a">>]
    /\ nCalled = {}
    /\ nCount = Ok(0)
    /\ nPapers = Ok(<<>>)

GraphIdle ==
    /\ gGraph = EmptyGraph
    /\ gRec = [name |-> <<"a">>]
    /\ gInput = [called |-> FALSE]
    /\ gResult = Ok(GenerateHtml(EmptyGraph))
    /\ gFirstIds = [set |-> FALSE]
    /\ sPapers = <<>>
    /\ sNext = 0

QueryIdle ==
    /\ qProfessors = <<>>
    /\ qPage = {}
    /\ qAllTopics = <<>>
    /\ qTopicProfs = <<>>

ServeIdle ==
    /\ fTopics = Absent
    /\ fScopus = Absent
    /\ ssLoaded = FALSE
    /\ ssProfessors = <<>>
    /\ ssMetadata = <<>>
    /\ lastLoad = [called |-> FALSE]

FetchIdle ==
    /\ aApiKey = None
    /\ aProfessors = <<>>
    /\ aPc = "idle"
    /\ aWith = <<>>
    /\ aI = 0
    /\ aCache = <<>>
    /\ aSuccessful = 0
    /\ aFailed = 0
    /\ aEvents = <<>>
    /\ aReturn = [how |-> "running"]

PipeIdle ==
    /\ pCache = <<>>
    /\ pAggregate = Absent
    /\ pTopics = Absent
    /\ pGraphs = <<>>
    /\ pPrev = <<>>
    /\ pPc = "idle"
    /\ pI = 0
    /\ pBuilder = EmptyGraph
    /\ pByTopics = <<>>
    /\ pHtml = <<>>
    /\ pLog = <<>>

PageIdle ==
    /\ wProfessors = <<>>
    /\ wView = [page |-> "none"]

ScrapeIdle ==
    /\ kPc = "idle"
    /\ kStaff = <<>>
    /\ kI = 0
    /\ kData = <<>>
    /\ kEvents = <<>>

----------------------------------------------------------------------------
(* Specification of the normalizer: a record, and the two functions applied *)

NormInit ==
    /\ nRec \in NormRecords
    /\ nCalled = {}
    /\ nCount = Ok(0)
    /\ nPapers = Ok(<<>>)
    /\ GraphIdle /\ QueryIdle /\ ServeIdle /\ FetchIdle /\ PipeIdle /\ PageIdle
    /\ ScrapeIdle

\* a caller evaluates get_paper_count(nRec)
GetPaperCount ==
    /\ "count" \notin nCalled
    /\ nCount' = get_paper_count(nRec)
    /\ nCalled' = nCalled \cup {"count"}
    /\ UNCHANGED <<nRec, nPapers>>
    /\ UNCHANGED exceptNorm

\* a caller evaluates get_all_papers(nRec)
GetAllPapers ==
    /\ "papers" \notin nCalled
    /\ nPapers' = get_all_papers(nRec)
    /\ nCalled' = nCalled \cup {"papers"}
    /\ UNCHANGED <<nRec, nCount>>
    /\ UNCHANGED exceptNorm

NormNext == GetPaperCount \/ GetAllPapers

SpecNorm == NormInit /\ [][NormNext]_vars

----------------------------------------------------------------------------
(* Specification of the assembler: one KnowledgeGraphBuilder builds the    *)
(* graph of the record under study and of other professors, in any order   *)
(* and any number of times.                                                *)

NodeIds(g) == [i \in 1..Len(g.nodes) |-> g.nodes[i].k]

GraphInit ==
    /\ gGraph = EmptyGraph
    /\ gRec \in GraphRecords
    /\ gInput = [called |-> FALSE]
    /\ gResult = Ok(GenerateHtml(EmptyGraph))
    /\ gFirstIds = [set |-> FALSE]
    /\ sPapers = <<>>
    /\ sNext = 0
    /\ NormIdle /\ QueryIdle /\ ServeIdle /\ FetchIdle /\ PipeIdle /\ PageIdle
    /\ ScrapeIdle

\* builder.build_professor_graph(r)
BuildProfessorGraph(r) ==
    LET out == build_professor_graph(gGraph, r)
    IN  /\ gGraph' = out.graph
        /\ gResult' = out.result
        /\ gInput' = [called |-> TRUE, rec |-> r]
        /\ gFirstIds' =
             IF r = gRec /\ ~gFirstIds.set /\ ~out.result.raised
             THEN [set |-> TRUE, ids |-> NodeIds(out.result.val), between |-> FALSE]
             ELSE IF r # gRec /\ gFirstIds.set
             THEN [gFirstIds EXCEPT !.between = TRUE]
             ELSE gFirstIds
        /\ UNCHANGED <<gRec, sPapers, sNext>>
        /\ UNCHANGED exceptGraph

BuildStudied == BuildProfessorGraph(gRec)

BuildOther == \E r \in OtherRecords : BuildProfessorGraph(r)

GraphNext == BuildStudied \/ BuildOther

SpecGraph == GraphInit /\ [][GraphNext]_vars

----------------------------------------------------------------------------
(* Specification of the paper-node styling: add_paper_node applied to two  *)
(* papers in turn on one builder.                                          *)

StyleInit ==
    /\ gGraph = EmptyGraph
    /\ sPapers \in [1..2 -> StylePapers]
    /\ sNext = 0
    /\ gRec = [name |-> <<"a">>]
    /\ gInput = [called |-> FALSE]
    /\ gResult = Ok(GenerateHtml(EmptyGraph))
    /\ gFirstIds = [set |-> FALSE]
    /\ NormIdle /\ QueryIdle /\ ServeIdle /\ FetchIdle /\ PipeIdle /\ PageIdle
    /\ ScrapeIdle

\* builder.add_paper_node(f"paper_7_{sNext}", title, year, citations, doi)
AddPaperNode ==
    /\ sNext < Len(sPapers)
    /\ LET paper == sPapers[sNext + 1]
           b == add_paper_node([graph |-> gGraph, raised |-> FALSE],
                               PaperId(Str(<<"7">>), sNext),
                               paper.title, paper.year, paper.citations, paper.doi)
       IN  gGraph' = b.graph
    /\ sNext' = sNext + 1
    /\ UNCHANGED <<gRec, gInput, gResult, gFirstIds, sPapers>>
    /\ UNCHANGED exceptGraph

StyleNext == AddPaperNode

SpecStyle == StyleInit /\ [][StyleNext]_vars

----------------------------------------------------------------------------
(* Specification of the query layer: a loaded professors mapping, and the  *)
(* pages that index it by topic.                                           *)

QueryInit ==
    /\ qProfessors \in QueryMappings
    /\ qPage = {}
    /\ qAllTopics = <<>>
    /\ qTopicProfs = <<>>
    /\ NormIdle /\ GraphIdle /\ ServeIdle /\ FetchIdle /\ PipeIdle /\ PageIdle
    /\ ScrapeIdle

\* the Filter by Topic page is rendered
RenderFilterByTopic ==
    /\ "filter" \notin qPage
    /\ qAllTopics' = AllTopics(<<>>, qProfessors, 1)
    /\ qPage' = qPage \cup {"filter"}
    /\ UNCHANGED <<qProfessors, qTopicProfs>>
    /\ UNCHANGED exceptQuery

\* the Summary & Analytics page is rendered
RenderSummary ==
    /\ "summary" \notin qPage
    /\ qTopicProfs' = TopicProfessors(<<>>, qProfessors, 1)
    /\ qPage' = qPage \cup {"summary"}
    /\ UNCHANGED <<qProfessors, qAllTopics>>
    /\ UNCHANGED exceptQuery

QueryNext == RenderFilterByTopic \/ RenderSummary

SpecQuery == QueryInit /\ [][QueryNext]_vars

----------------------------------------------------------------------------
(* Specification of the cache read path: the two aggregate files change    *)
(* under the serving layer (a pipeline run rewrites the flat file, a run   *)
(* cut short leaves it unreadable, files are put in place or removed), and *)
(* the user clicks Load Data at any time.                                  *)

Session == [data_loaded |-> ssLoaded, professors_data |-> ssProfessors,
            metadata |-> ssMetadata]

ServeInit ==
    /\ fTopics \in TopicFileStates
    /\ fScopus \in FlatFileStates
    /\ ssLoaded = FALSE
    /\ ssProfessors = <<>>
    /\ ssMetadata = <<>>
    /\ lastLoad = [called |-> FALSE]
    /\ NormIdle /\ GraphIdle /\ QueryIdle /\ FetchIdle /\ PipeIdle /\ PageIdle
    /\ ScrapeIdle

\* history: the most recent load so far that returned a non-empty mapping
LatestGood(loaded) ==
    IF ~loaded.raised /\ DictTruthy(loaded.val.professors)
    THEN [some |-> TRUE, professors |-> loaded.val.professors,
          metadata |-> loaded.val.metadata]
    ELSE IF lastLoad.called THEN lastLoad.good ELSE [some |-> FALSE]

\* the user clicks Load Data
LoadData ==
    LET loaded == load_scopus_cache(fTopics, fScopus)
        after == LoadDataHandler(Session, loaded)
    IN  /\ ssLoaded' = after.data_loaded
        /\ ssProfessors' = after.professors_data
        /\ ssMetadata' = after.metadata
        /\ lastLoad' = [called |-> TRUE, topics |-> fTopics, scopus |-> fScopus,
                        before |-> Session, result |-> loaded,
                        good |-> LatestGood(loaded)]
        /\ UNCHANGED <<fTopics, fScopus>>
        /\ UNCHANGED exceptServe

\* the flat aggregate file is rewritten, cut short, or removed
ChangeScopusFile ==
    /\ \E f \in FlatFileStates : f # fScopus /\ fScopus' = f
    /\ UNCHANGED <<fTopics, ssLoaded, ssProfessors, ssMetadata, lastLoad>>
    /\ UNCHANGED exceptServe

\* the topic-grouped aggregate file is put in place, cut short, or removed
ChangeTopicsFile ==
    /\ \E f \in TopicFileStates : f # fTopics /\ fTopics' = f
    /\ UNCHANGED <<fScopus, ssLoaded, ssProfessors, ssMetadata, lastLoad>>
    /\ UNCHANGED exceptServe

ServeNext == LoadData \/ ChangeScopusFile \/ ChangeTopicsFile

SpecServe == ServeInit /\ [][ServeNext]_vars

----------------------------------------------------------------------------
(* Specification of the batch fetch: one call of fetch_all_scopus_data,    *)
(* one loop iteration per step; the API answers each query as it likes.    *)

FetchInit ==
    /\ aApiKey \in {None, Str(<<>>), Str(<<"k">>)}
    /\ aProfessors \in SeqsUpTo(BasicProfessors, MaxProfs)
    /\ aPc = "start"
    /\ aWith = <<>>
    /\ aI = 0
    /\ aCache = <<>>
    /\ aSuccessful = 0
    /\ aFailed = 0
    /\ aEvents = <<>>
    /\ aReturn = [how |-> "running"]
    /\ NormIdle /\ GraphIdle /\ QueryIdle /\ ServeIdle /\ PipeIdle /\ PageIdle
    /\ ScrapeIdle

\* if not api_key: return {}
FetchNoApiKey ==
    /\ aPc = "start"
    /\ ~Truthy(aApiKey)
    /\ aPc' = "returned"
    /\ aReturn' = [how |-> "no_api_key", val |-> <<>>]
    /\ UNCHANGED <<aApiKey, aProfessors, aWith, aI, aCache, aSuccessful, aFailed, aEvents>>
    /\ UNCHANGED exceptFetch

\* client.test_connection() fails: return {}
FetchNoConnection ==
    /\ aPc = "start"
    /\ Truthy(aApiKey)
    /\ \E response \in Responses :
         /\ ~test_connection(response)
         /\ aEvents' = Append(aEvents, TestEvent)
    /\ aPc' = "returned"
    /\ aReturn' = [how |-> "no_connection", val |-> <<>>]
    /\ UNCHANGED <<aApiKey, aProfessors, aWith, aI, aCache, aSuccessful, aFailed>>
    /\ UNCHANGED exceptFetch

\* client.test_connection() succeeds: the professors are filtered and the
\* counters initialised
FetchBegin ==
    /\ aPc = "start"
    /\ Truthy(aApiKey)
    /\ \E response \in Responses :
         /\ test_connection(response)
         /\ aEvents' = Append(aEvents, TestEvent)
    /\ aWith' = ProfessorsWithScopus(aProfessors)
    /\ aCache' = <<>>
    /\ aSuccessful' = 0
    /\ aFailed' = 0
    /\ aI' = 0
    /\ aPc' = "loop"
    /\ UNCHANGED <<aApiKey, aProfessors, aReturn>>
    /\ UNCHANGED exceptFetch

\* one iteration of the for loop: the fetch, the bookkeeping, and the sleep
\* unless this was the last professor.  The client answers from the API's
\* response; an exception that escapes the call (the client catches its own,
\* so only one raised outside its handlers) reaches the except clause.
FetchOne ==
    /\ aPc = "loop"
    /\ aI < Len(aWith)
    /\ \E response \in Responses :
         LET professor == aWith[aI + 1]
             scopus_id == Get(professor, "scopus_id", None)
             called == Append(aEvents, CallEvent(scopus_id))
         IN  \E fetched \in {get_professor_complete_data(scopus_id, response),
                             Raised("Exception")} :
             LET st == LoopBody([cache |-> aCache, successful |-> aSuccessful,
                                 failed |-> aFailed], professor, fetched, Len(called))
             IN
             /\ aCache' = st.cache
             /\ aSuccessful' = st.successful
             /\ aFailed' = st.failed
             /\ aEvents' = IF FetchDelayDue(aI + 1, Len(aWith))
                           THEN Append(Append(called, PrintEvent(fetched, scopus_id)),
                                       SleepEvent)
                           ELSE Append(called, PrintEvent(fetched, scopus_id))
    /\ aI' = aI + 1
    /\ UNCHANGED <<aApiKey, aProfessors, aPc, aWith, aReturn>>
    /\ UNCHANGED exceptFetch

\* the loop is over: return scopus_data_cache
FetchReturn ==
    /\ aPc = "loop"
    /\ aI = Len(aWith)
    /\ aPc' = "returned"
    /\ aReturn' = [how |-> "completed", val |-> aCache]
    /\ UNCHANGED <<aApiKey, aProfessors, aWith, aI, aCache, aSuccessful, aFailed, aEvents>>
    /\ UNCHANGED exceptFetch

FetchNext ==
    FetchNoApiKey \/ FetchNoConnection \/ FetchBegin \/ FetchOne \/ FetchReturn

SpecFetch == FetchInit /\ [][FetchNext]_vars

\* the batch is a sequential script: it keeps running until it returns
SpecFetchFair == SpecFetch /\ WF_vars(FetchNext)

----------------------------------------------------------------------------
(* Specification of the pipeline write path: one run of main from the      *)
(* point where fetch_all_scopus_data has returned, over the store an       *)
(* earlier run left.  Opening a file for writing and writing it are        *)
(* separate steps; the process may be interrupted between any two steps.   *)

PipeInit ==
    /\ pCache \in FetchedCaches
    /\ pTopics \in TopicFileStates
    /\ \E store \in PrevStores :
         /\ pAggregate = store.aggregate
         /\ pGraphs = store.graphs
         /\ pPrev = store
    /\ pPc = "fetched"
    /\ pI = 0
    /\ pBuilder = EmptyGraph
    /\ pByTopics = <<>>
    /\ pHtml = <<>>
    /\ pLog = <<>>
    /\ NormIdle /\ GraphIdle /\ QueryIdle /\ ServeIdle /\ FetchIdle /\ PageIdle
    /\ ScrapeIdle

\* variant: the run goes on to save_scopus_cache with an empty mapping
MainNoDataSaves ==
    /\ pPc = "fetched"
    /\ pCache = <<>>
    /\ pAggregate' = Holding(cache_data(pCache, "now"))
    /\ pPc' = "no_data"
    /\ UNCHANGED <<pCache, pTopics, pGraphs, pPrev, pI, pBuilder, pByTopics, pHtml, pLog>>
    /\ UNCHANGED exceptPipe

\* if not scopus_data_cache: return
MainNoData ==
    /\ pPc = "fetched"
    /\ pCache = <<>>
    /\ pPc' = "no_data"
    /\ UNCHANGED <<pCache, pAggregate, pTopics, pGraphs, pPrev, pI, pBuilder,
                   pByTopics, pHtml, pLog>>
    /\ UNCHANGED exceptPipe

\* save_scopus_cache: open(SCOPUS_CACHE_FILE, 'w') empties the file, or
\* raises and leaves it as it was
SaveOpen ==
    /\ pPc = "fetched"
    /\ pCache # <<>>
    /\ \E opened \in BOOLEAN :
         IF opened
         THEN pAggregate' = Unreadable /\ pPc' = "saving"
         ELSE pAggregate' = pAggregate /\ pPc' = "raised"
    /\ UNCHANGED <<pCache, pTopics, pGraphs, pPrev, pI, pBuilder, pByTopics, pHtml, pLog>>
    /\ UNCHANGED exceptPipe

\* variant: a failure of json.dump is caught and the run goes on
SaveDumpCaught ==
    /\ pPc = "saving"
    /\ \E dumped \in BOOLEAN :
         pAggregate' = IF dumped THEN Holding(cache_data(pCache, "now")) ELSE Unreadable
    /\ pPc' = "saved"
    /\ UNCHANGED <<pCache, pTopics, pGraphs, pPrev, pI, pBuilder, pByTopics, pHtml, pLog>>
    /\ UNCHANGED exceptPipe

\* save_scopus_cache: json.dump writes the document, or raises part-way
SaveDump ==
    /\ pPc = "saving"
    /\ \E dumped \in BOOLEAN :
         IF dumped
         THEN pAggregate' = Holding(cache_data(pCache, "now")) /\ pPc' = "saved"
         ELSE pAggregate' = pAggregate /\ pPc' = "raised"
    /\ UNCHANGED <<pCache, pTopics, pGraphs, pPrev, pI, pBuilder, pByTopics, pHtml, pLog>>
    /\ UNCHANGED exceptPipe

\* generate_all_graphs up to the loop: professors_by_topics is read from the
\* topic-grouped file if there is one
GenLoadTopics ==
    /\ pPc = "saved"
    /\ IF ~pTopics.exists
       THEN pByTopics' = <<>> /\ pPc' = "loop"
       ELSE IF pTopics.json
       THEN pByTopics' = Get(pTopics.doc, "professors", <<>>) /\ pPc' = "loop"
       ELSE pByTopics' = pByTopics /\ pPc' = "raised"
    /\ pBuilder' = EmptyGraph
    /\ pI' = 0
    /\ UNCHANGED <<pCache, pAggregate, pTopics, pGraphs, pPrev, pHtml, pLog>>
    /\ UNCHANGED exceptPipe

\* one iteration up to open(graph_file, 'w'): the build, which may raise,
\* and the open, which empties the artifact file or raises
GenBuild ==
    /\ pPc = "loop"
    /\ pI < Len(pCache)
    /\ \E fails \in BOOLEAN, opened \in BOOLEAN :
         LET scopus_id == pCache[pI + 1].k
             built == BuildArtifact(pBuilder, scopus_id, pCache[pI + 1].v,
                                    pByTopics, fails)
         IN  /\ pCache' = [pCache EXCEPT ![pI + 1].v = built.data]
             /\ pBuilder' = built.graph
             /\ IF built.result.raised
                THEN /\ pLog' = Append(pLog, [id |-> scopus_id, outcome |-> "build_failed"])
                     /\ pPc' = AfterAttempt("build_failed")
                     /\ pI' = pI + 1
                     /\ UNCHANGED <<pGraphs, pHtml>>
                ELSE IF ~opened
                THEN /\ pLog' = Append(pLog, [id |-> scopus_id, outcome |-> "open_failed"])
                     /\ pPc' = AfterAttempt("open_failed")
                     /\ pI' = pI + 1
                     /\ UNCHANGED <<pGraphs, pHtml>>
                ELSE /\ pGraphs' = [pGraphs EXCEPT ![scopus_id] = Truncated]
                     /\ pHtml' = built.result.val
                     /\ pPc' = "writing"
                     /\ UNCHANGED <<pI, pLog>>
    /\ UNCHANGED <<pAggregate, pTopics, pPrev, pByTopics>>
    /\ UNCHANGED exceptPipe

\* f.write(graph_html): the artifact is written, or the write raises
GenWrite ==
    /\ pPc = "writing"
    /\ \E written \in BOOLEAN :
         LET scopus_id == pCache[pI + 1].k
             outcome == IF written THEN "written" ELSE "write_failed"
         IN  /\ pGraphs' = IF written
                           THEN [pGraphs EXCEPT ![scopus_id] = Artifact(pHtml)]
                           ELSE pGraphs
             /\ pLog' = Append(pLog, [id |-> scopus_id, outcome |-> outcome])
             /\ pPc' = AfterAttempt(outcome)
    /\ pI' = pI + 1
    /\ pHtml' = <<>>
    /\ UNCHANGED <<pCache, pAggregate, pTopics, pPrev, pBuilder, pByTopics>>
    /\ UNCHANGED exceptPipe

\* the loop is over: generate_all_graphs returns and main prints ALL DONE
MainDone ==
    /\ pPc = "loop"
    /\ pI = Len(pCache)
    /\ pPc' = "done"
    /\ UNCHANGED <<pCache, pAggregate, pTopics, pGraphs, pPrev, pI, pBuilder,
                   pByTopics, pHtml, pLog>>
    /\ UNCHANGED exceptPipe

\* the process is interrupted: the files stay as written so far
Interrupt ==
    /\ pPc \in {"fetched", "saving", "saved", "loop", "writing"}
    /\ pPc' = "interrupted"
    /\ UNCHANGED <<pCache, pAggregate, pTopics, pGraphs, pPrev, pI, pBuilder,
                   pByTopics, pHtml, pLog>>
    /\ UNCHANGED exceptPipe

PipeNext ==
    \/ MainNoData \/ SaveOpen \/ SaveDump \/ GenLoadTopics
    \/ GenBuild \/ GenWrite \/ MainDone \/ Interrupt

SpecPipe == PipeInit /\ [][PipeNext]_vars

\* the run has ended: main returned, raised, or was interrupted
RunEnded == pPc \in {"done", "no_data", "raised", "interrupted"}

\* the user clicks Load Data after the run: the dashboard reads the files
\* of the cache directory the run wrote to
LoadAfterRun ==
    /\ RunEnded
    /\ LET loaded == load_scopus_cache(pTopics, pAggregate)
           after == LoadDataHandler(Session, loaded)
       IN  /\ ssLoaded' = after.data_loaded
           /\ ssProfessors' = after.professors_data
           /\ ssMetadata' = after.metadata
           /\ lastLoad' = [called |-> TRUE, topics |-> pTopics, scopus |-> pAggregate,
                           before |-> Session, result |-> loaded,
                        good |-> LatestGood(loaded)]
    /\ UNCHANGED <<fTopics, fScopus>>
    /\ UNCHANGED exceptServe

RunLoadNext == PipeNext \/ LoadAfterRun

SpecRunLoad == PipeInit /\ [][RunLoadNext]_vars

----------------------------------------------------------------------------
(* fetch_all_scopus_data.py main() from its first line: the checks, the    *)
(* fetch, and then the save and the graphs                                 *)

\* the professors a whole run is given
MaxRunProfs == 2

MainInit ==
    /\ aApiKey \in {None, Str(<<>>), Str(<<"k">>)}
    /\ aProfessors \in SeqsUpTo(BasicProfessors, MaxRunProfs)
    /\ aPc = "idle"
    /\ aWith = <<>>
    /\ aI = 0
    /\ aCache = <<>>
    /\ aSuccessful = 0
    /\ aFailed = 0
    /\ aEvents = <<>>
    /\ aReturn = [how |-> "running"]
    /\ pCache = <<>>
    /\ pTopics \in TopicFileStates
    /\ \E store \in PrevStores :
         /\ pAggregate = store.aggregate
         /\ pGraphs = store.graphs
         /\ pPrev = store
    /\ pPc = "idle"
    /\ pI = 0
    /\ pBuilder = EmptyGraph
    /\ pByTopics = <<>>
    /\ pHtml = <<>>
    /\ pLog = <<>>
    /\ NormIdle /\ GraphIdle /\ QueryIdle /\ ServeIdle /\ PageIdle /\ ScrapeIdle

\* if not SCOPUS_API_KEY: return
MainNoApiKey ==
    /\ pPc = "idle" /\ aPc = "idle"
    /\ ~Truthy(aApiKey)
    /\ pPc' = "no_api_key"
    /\ UNCHANGED <<pCache, pAggregate, pTopics, pGraphs, pPrev, pI, pBuilder,
                   pByTopics, pHtml, pLog>>
    /\ UNCHANGED exceptPipe

\* professors = load_basic_professors(); if not professors: return
MainNoProfessors ==
    /\ pPc = "idle" /\ aPc = "idle"
    /\ Truthy(aApiKey)
    /\ aProfessors = <<>>
    /\ pPc' = "no_professors"
    /\ UNCHANGED <<pCache, pAggregate, pTopics, pGraphs, pPrev, pI, pBuilder,
                   pByTopics, pHtml, pLog>>
    /\ UNCHANGED exceptPipe

\* main calls fetch_all_scopus_data(SCOPUS_API_KEY, professors, delay=2.0)
MainFetch ==
    /\ pPc = "idle" /\ aPc = "idle"
    /\ Truthy(aApiKey)
    /\ aProfessors # <<>>
    /\ aPc' = "start"
    /\ UNCHANGED <<aApiKey, aProfessors, aWith, aI, aCache, aSuccessful, aFailed,
                   aEvents, aReturn>>
    /\ UNCHANGED exceptFetch

\* scopus_data_cache = the mapping fetch_all_scopus_data returned
MainFetched ==
    /\ pPc = "idle" /\ aPc = "returned"
    /\ pCache' = aReturn.val
    /\ pPc' = "fetched"
    /\ UNCHANGED <<pAggregate, pTopics, pGraphs, pPrev, pI, pBuilder, pByTopics,
                   pHtml, pLog>>
    /\ UNCHANGED exceptPipe

MainNext ==
    \/ MainNoApiKey \/ MainNoProfessors \/ MainFetch
    \/ FetchNoConnection \/ FetchBegin \/ FetchOne \/ FetchReturn
    \/ MainFetched \/ PipeNext

SpecMain == MainInit /\ [][MainNext]_vars

----------------------------------------------------------------------------
(* Specification of the pages: the user opens a professor under a topic of *)
(* the Filter by Topic page, or searches on the All Professors page.       *)

PageInit ==
    /\ wProfessors \in PageMappings
    /\ wView = [page |-> "none"]
    /\ NormIdle /\ GraphIdle /\ QueryIdle /\ ServeIdle /\ FetchIdle /\ PipeIdle
    /\ ScrapeIdle

\* Filter by Topic: a topic is selected and a professor listed under it is
\* expanded
ShowTopicPapers ==
    /\ \E i \in 1..Len(wProfessors) :
       \E t \in 1..Len(Get(wProfessors[i].v, "topics", <<>>)) :
         LET prof_data == wProfessors[i].v
             selected_topic == prof_data.topics[t]
         IN  wView' = [page |-> "topic_papers", prof |-> prof_data,
                       topic |-> selected_topic,
                       view |-> TopicPapers(prof_data, selected_topic)]
    /\ UNCHANGED wProfessors
    /\ UNCHANGED exceptPage

\* All Professors: the page is rendered with a search text
SearchProfessors ==
    /\ \E search \in SearchTexts :
         wView' = [page |-> "all_professors", search |-> search,
                   rows |-> AllProfessorsPage(wProfessors, search)]
    /\ UNCHANGED wProfessors
    /\ UNCHANGED exceptPage

PageNext == ShowTopicPapers \/ SearchProfessors

SpecPage == PageInit /\ [][PageNext]_vars

----------------------------------------------------------------------------
(* Specification of the two batch loops: one run of scrape_all_professors  *)
(* or one run of fetch_all_scopus_data.                                    *)

ScrapeInit ==
    /\ kPc = "start"
    /\ kStaff = <<>>
    /\ kI = 0
    /\ kData = <<>>
    /\ kEvents = <<>>
    /\ NormIdle /\ GraphIdle /\ QueryIdle /\ ServeIdle /\ FetchIdle /\ PipeIdle
    /\ PageIdle

\* staff_list = self.get_staff_list(): the staff found, or [] on an error
ScrapeBegin ==
    /\ kPc = "start"
    /\ kStaff' \in DistinctSeqsUpTo(StaffInfos, MaxStaff)
    /\ kEvents' = Append(kEvents, ListEvent)
    /\ kData' = <<>>
    /\ kI' = 0
    /\ kPc' = "loop"
    /\ UNCHANGED exceptScrape

\* one iteration of the for loop: the profile request, the record, and the
\* sleep unless this was the last staff member
ScrapeOne ==
    /\ kPc = "loop"
    /\ kI < Len(kStaff)
    /\ \E page \in ProfilePages :
         LET staff == kStaff[kI + 1]
             profile_data == extract_profile_data(staff.profile_url, page)
             called == Append(kEvents, CallEvent(staff.profile_url))
         IN  /\ kData' = Append(kData, ProfessorData(staff, profile_data))
             /\ kEvents' = IF ScrapeDelayDue(kI + 1, Len(kStaff))
                           THEN Append(called, SleepEvent)
                           ELSE called
    /\ kI' = kI + 1
    /\ UNCHANGED <<kPc, kStaff>>
    /\ UNCHANGED exceptScrape

\* return professors_data
ScrapeReturn ==
    /\ kPc = "loop"
    /\ kI = Len(kStaff)
    /\ kPc' = "returned"
    /\ UNCHANGED <<kStaff, kI, kData, kEvents>>
    /\ UNCHANGED exceptScrape

ScrapeNext == ScrapeBegin \/ ScrapeOne \/ ScrapeReturn

BatchInit == FetchInit \/ ScrapeInit

BatchNext == FetchNext \/ ScrapeNext

SpecBatch == BatchInit /\ [][BatchNext]_vars

----------------------------------------------------------------------------
(* Claims about the normalizer *)

\* C2: for every record in shape A (a flat papers list is present),
\* get_paper_count returns len(papers).
C2_ShapeACount ==
    ("count" \in nCalled /\ Has(nRec, "papers"))
        => (~nCount.raised /\ nCount.val = Len(nRec.papers))

\* a record with a non-empty papers list and topic_groups of another total size
C2_Witness ==
    /\ "count" \in nCalled
    /\ Has(nRec, "papers") /\ Has(nRec, "topic_groups")
    /\ Len(nRec.papers) = 2
    /\ SumSeq(BucketSizes(nRec.topic_groups)) = 3
    /\ nCount = Ok(2)

\* C3 as stated: for every record that carries topic_groups, in place of or
\* alongside papers, get_paper_count returns the sum of the bucket sizes.
C3_Original ==
    ("count" \in nCalled /\ Has(nRec, "topic_groups"))
        => (~nCount.raised /\ nCount.val = SumSeq(BucketSizes(nRec.topic_groups)))

\* C3 amended: for a record that carries topic_groups, get_paper_count returns
\* the sum of the bucket sizes when the record has no papers list, and
\* len(papers) when a papers list is present alongside topic_groups.
C3_ShapeBCount ==
    ("count" \in nCalled /\ Has(nRec, "topic_groups"))
        => /\ ~nCount.raised
           /\ nCount.val = IF Has(nRec, "papers")
                            THEN Len(nRec.papers)
                            ELSE SumSeq(BucketSizes(nRec.topic_groups))

\* a topic_groups-only record with two buckets holding three papers in all
C3_Witness ==
    /\ "count" \in nCalled
    /\ Has(nRec, "topic_groups") /\ ~Has(nRec, "papers")
    /\ Len(nRec.topic_groups) = 2
    /\ nCount = Ok(3)

\* C4: for a record with neither papers nor topic_groups, get_all_papers
\* returns the empty list and get_paper_count returns 0; neither function
\* raises on any record, whichever of the two fields is missing.
C4_NeitherShape ==
    /\ ~nCount.raised
    /\ ~nPapers.raised
    /\ (~Has(nRec, "papers") /\ ~Has(nRec, "topic_groups"))
         => /\ "count" \in nCalled => nCount.val = 0
            /\ "papers" \in nCalled => nPapers.val = <<>>

\* both functions have been applied to a record with neither field
C4_Witness ==
    /\ nCalled = {"count", "papers"}
    /\ ~Has(nRec, "papers") /\ ~Has(nRec, "topic_groups")
    /\ nCount = Ok(0)
    /\ nPapers = Ok(<<>>)

----------------------------------------------------------------------------
(* Claims about the assembler *)

\* the nodes of a generated document with a given node_type
NodesOfType(g, t) == {i \in 1..Len(g.nodes) : g.nodes[i].v.node_type = t}

\* the record of the latest build has an identifier: scopus_id is a str or
\* is absent (every record of the aggregate cache carries its key)
InputHasKey == gInput.called /\ Get(gInput.rec, "scopus_id", Str(<<>>)).tag = "str"

InputTopics == Get(gInput.rec, "topics", <<>>)
InputPapers == Get(gInput.rec, "papers", <<>>)

C6_Deterministic ==
    (InputHasKey /\ gInput.rec = gRec /\ ~gResult.raised) =>
        LET g == gResult.val
            key == Get(gRec, "scopus_id", Str(<<"p", "r", "o", "f", "_", "1">>)).val
            nT == Len(InputTopics)
        IN  /\ gFirstIds.set
            /\ NodeIds(g) = gFirstIds.ids
            /\ Len(g.nodes) = 1 + nT + Len(InputPapers)
            /\ g.nodes[1].k = Str(key)
            /\ \A i \in 1..nT :
                 /\ g.nodes[1 + i].k =
                      Str(<<"t", "o", "p", "i", "c", "_">> \o key \o <<"_">> \o Digits(i - 1))
                 /\ g.nodes[1 + i].v.label = InputTopics[i]
            /\ \A i \in 1..Len(InputPapers) :
                 /\ g.nodes[1 + nT + i].k =
                      Str(<<"p", "a", "p", "e", "r", "_">> \o key \o <<"_">> \o Digits(i - 1))
                 /\ g.nodes[1 + nT + i].v.node_type = "paper"

\* the record under study was built, then another professor's graph, then
\* the record under study again
C6_Witness ==
    /\ InputHasKey /\ gInput.rec = gRec /\ ~gResult.raised
    /\ gFirstIds.set /\ gFirstIds.between
    /\ Len(InputTopics) = 2 /\ Len(InputPapers) = 2
    /\ gRec \notin OtherRecords
    /\ NodeIds(gResult.val) = gFirstIds.ids

----------------------------------------------------------------------------
(* Claims about the paper-node styling *)

\* the size of the node add_paper_node made of the i-th paper of sPapers
AddedSize(i) == DictGet(gGraph.nodes, PaperId(Str(<<"7">>), i - 1)).size

\* C5: for every citation count c >= 0 the Paper node's size is
\* min(35 + floor(c / 3), 50); it never exceeds 50 and is non-decreasing in c.
C5_PaperSize ==
    /\ \A i \in 1..sNext :
         LET c == sPapers[i].citations
         IN  /\ AddedSize(i) = (IF 35 + (c \div 3) <= 50 THEN 35 + (c \div 3) ELSE 50)
             /\ AddedSize(i) <= 50
    /\ sNext = 2 =>
         (sPapers[1].citations <= sPapers[2].citations => AddedSize(1) <= AddedSize(2))

\* a paper of 2 citations and one of 50 citations (35 + 16, capped) were added
C5_Witness ==
    /\ sNext = 2
    /\ sPapers[1].citations = 2 /\ sPapers[2].citations = 50
    /\ AddedSize(1) = 35 /\ AddedSize(2) = 50

----------------------------------------------------------------------------
(* Claims about the query layer *)

\* professor P (a key of the mapping) is listed under topic T in all_topics
ListedUnder(index, T, P) ==
    /\ DictHas(index, T)
    /\ \E i \in 1..Len(DictGet(index, T)) : DictGet(index, T)[i].scopus_id = P

\* T occurs in the topics list of record prof
HasTopic(prof, T) ==
    \E i \in 1..Len(Get(prof, "topics", <<>>)) : prof.topics[i] = T

\* C7: the topic-to-professor index of the Filter by Topic page lists
\* professor P under topic T if and only if T appears in P's topics list,
\* for every loaded professor P and every topic T; it lists nothing else.
C7_ReverseIndex ==
    "filter" \in qPage =>
        /\ \A j \in 1..Len(qProfessors) : \A T \in TopicLabels :
             ListedUnder(qAllTopics, T, qProfessors[j].k) <=> HasTopic(qProfessors[j].v, T)
        /\ \A n \in 1..Len(qAllTopics) :
             /\ qAllTopics[n].k \in TopicLabels
             /\ \A i \in 1..Len(qAllTopics[n].v) :
                  /\ DictHas(qProfessors, qAllTopics[n].v[i].scopus_id)
                  /\ qAllTopics[n].v[i].prof_data =
                        DictGet(qProfessors, qAllTopics[n].v[i].scopus_id)

\* two professors share the topic AI, and only the second has NLP
C7_Witness ==
    /\ "filter" \in qPage
    /\ Len(qProfessors) = 2
    /\ HasTopic(qProfessors[1].v, TopicAI) /\ HasTopic(qProfessors[2].v, TopicAI)
    /\ ~HasTopic(qProfessors[1].v, TopicNLP) /\ HasTopic(qProfessors[2].v, TopicNLP)
    /\ Len(DictGet(qAllTopics, TopicAI)) = 2
    /\ Len(DictGet(qAllTopics, TopicNLP)) = 1

----------------------------------------------------------------------------
(* Claims about the cache read path *)

\* what load_scopus_cache returns for a file holding a JSON document
ContentsOf(file) ==
    [professors |-> Dict(Get(file.doc, "professors", <<>>)),
     metadata |-> Dict(Get(file.doc, "metadata", <<>>))]

\* C8: load_scopus_cache reads the topic-grouped file whenever it is present
\* and returns its contents; it reads the flat file, and returns its
\* contents, only when the topic-grouped file is absent and the flat file
\* present; it reports 'no cache' exactly when both are absent.  (The
\* contents of a present file are those of the JSON document it holds.)
C8_LoadPreference ==
    lastLoad.called =>
        LET r == lastLoad.result
            t == lastLoad.topics
            f == lastLoad.scopus
        IN  /\ t.exists => r.source = "topics"
            /\ (t.exists /\ t.json) => (~r.raised /\ r.val = ContentsOf(t))
            /\ r.source = "scopus" <=> (~t.exists /\ f.exists)
            /\ (~t.exists /\ f.exists /\ f.json) => (~r.raised /\ r.val = ContentsOf(f))
            /\ r.source = "none" <=> (~t.exists /\ ~f.exists)

\* both files hold a document and the load returned the topic-grouped one
C8_Witness ==
    /\ lastLoad.called
    /\ lastLoad.topics.exists /\ lastLoad.topics.json
    /\ lastLoad.scopus.exists /\ lastLoad.scopus.json
    /\ ~lastLoad.result.raised
    /\ lastLoad.result.val = ContentsOf(lastLoad.topics)
    /\ lastLoad.result.val # ContentsOf(lastLoad.scopus)
    /\ ssLoaded

\* C9: when neither aggregate file exists, load_scopus_cache raises nothing
\* and returns its 'no data' value (None, None), which the caller takes for
\* empty; the Load Data click then changes nothing in the session state, so a
\* session that was not loaded stays not loaded, with empty professors_data
\* and metadata.
C9_NoCache ==
    (lastLoad.called /\ ~lastLoad.topics.exists /\ ~lastLoad.scopus.exists) =>
        /\ ~lastLoad.result.raised
        /\ lastLoad.result.val = [professors |-> NoDict, metadata |-> NoDict]
        /\ ~DictTruthy(lastLoad.result.val.professors)
        /\ Session = lastLoad.before
        /\ lastLoad.before = InitialSession =>
             (~ssLoaded /\ ssProfessors = <<>> /\ ssMetadata = <<>>)

\* Load Data was clicked in a fresh session with no aggregate file on disk
C9_Witness ==
    /\ lastLoad.called
    /\ ~lastLoad.topics.exists /\ ~lastLoad.scopus.exists
    /\ lastLoad.before = InitialSession
    /\ ~lastLoad.result.raised
    /\ ~ssLoaded

----------------------------------------------------------------------------
(* Claims about the batch fetch *)

\* the Scopus IDs of the professors that have one, in input order
IdsWithScopus(professors) ==
    LET having == SelectSeq(professors,
                    LAMBDA p : Has(p, "scopus_id") /\ p.scopus_id.tag = "str"
                               /\ p.scopus_id.val # <<>>)
    IN  [i \in 1..Len(having) |-> having[i].scopus_id]

\* the IDs client.get_professor_complete_data was called with, in call order
Attempted ==
    LET calls == SelectSeq(aEvents, LAMBDA ev : ev.e = "call")
    IN  [i \in 1..Len(calls) |-> calls[i].id]

\* while the loop runs the attempts made are the first aI professors with a
\* Scopus ID, once each and in input order, and each was counted successful
\* or failed; when the function returns from the loop every one of them was
\* attempted once and counted
FetchLoopAccounts ==
    /\ aPc = "loop" =>
         /\ aI <= Len(IdsWithScopus(aProfessors))
         /\ Attempted = SubSeq(IdsWithScopus(aProfessors), 1, aI)
         /\ aSuccessful + aFailed = aI
    /\ aReturn.how = "completed" =>
         /\ Attempted = IdsWithScopus(aProfessors)
         /\ aSuccessful + aFailed = Len(IdsWithScopus(aProfessors))

\* C10: once fetch_all_scopus_data is in its loop, a professor's failed fetch
\* (no data, or an exception) never aborts the run: the loop terminates by
\* running to completion, every professor with a Scopus ID is attempted
\* exactly once, in input order, and at the end successful + failed equals
\* the number of professors with a Scopus ID.
C10_FetchLoop ==
    /\ [](FetchLoopAccounts)
    /\ (aPc = "loop") ~> (aReturn.how = "completed")

\* a completed run over three professors in which the first two fetches
\* failed and the third, for another ID, succeeded
C10_Witness ==
    /\ aReturn.how = "completed"
    /\ Len(aWith) = 3
    /\ aFailed = 2 /\ aSuccessful = 1
    /\ DictKeys(aCache) = {aWith[3].scopus_id.val}
    /\ aWith[1].scopus_id # aWith[3].scopus_id
    /\ aWith[2].scopus_id # aWith[3].scopus_id
    /\ Len(Attempted) = 3

----------------------------------------------------------------------------
(* Claims about the pipeline write path *)

\* the scopus_ids of a mapping, in the order of its items()
KeysInOrder(d) == [i \in 1..Len(d) |-> d[i].k]

\* the scopus_ids of the attempts made so far, in order
AttemptedIds == [i \in 1..Len(pLog) |-> pLog[i].id]

\* C11: in the loop of generate_all_graphs a failure while building or
\* writing one professor's artifact does not prevent the attempt for a later
\* professor: no exception leaves the loop, the attempts made are those for
\* the first pI professors of the fetched collection, once each in order,
\* and when the loop is over every professor has had exactly one attempt.
C11_EveryProfessorAttempted ==
    /\ pPc \in {"loop", "writing"} =>
         AttemptedIds = SubSeq(KeysInOrder(pCache), 1, pI)
    /\ pPc = "done" => AttemptedIds = KeysInOrder(pCache)
    /\ pPc = "raised" => pLog = <<>>

\* a finished run over two professors whose first attempt failed and whose
\* second attempt wrote its artifact
C11_Witness ==
    /\ pPc = "done"
    /\ Len(pLog) = 2
    /\ pLog[1].outcome \in {"build_failed", "open_failed", "write_failed"}
    /\ pLog[2].outcome = "written"
    /\ pGraphs[pLog[2].id] = Artifact(
          build_professor_graph(EmptyGraph, DictGet(pCache, pLog[2].id)).result.val)

\* the artifact this run builds for the professor stored under id
NewArtifact(id) ==
    Artifact(build_professor_graph(EmptyGraph, DictGet(pCache, id)).result.val)

\* the outcome of the attempt made for id
OutcomeOf(id) == pLog[CHOOSE i \in 1..Len(pLog) : pLog[i].id = id].outcome

\* the mapping as fetched, before generate_all_graphs merged topic_groups
\* into its records
AsFetched(d) ==
    [i \in 1..Len(d) |->
        [k |-> d[i].k,
         v |-> [f \in DOMAIN d[i].v \ {"topic_groups"} |-> d[i].v[f]]]]

\* the aggregate file holds the whole mapping of this run and nothing else
AggregateIsNew ==
    /\ pAggregate.exists /\ pAggregate.json
    /\ pAggregate.doc.professors = AsFetched(pCache)
    /\ pAggregate.doc.metadata.fetched_at = "now"

\* C12 as stated: after a completed run the aggregate file holds the new
\* mapping and every artifact in the store was written by this run.
C12_Original ==
    pPc = "done" =>
        /\ AggregateIsNew
        /\ \A id \in ScopusIds :
             pGraphs[id].exists => (DictHas(pCache, id) /\ pGraphs[id] = NewArtifact(id))

\* C12, amended: a completed run replaces the whole content of the aggregate
\* file with the new mapping, and replaces the whole artifact of each
\* professor whose build and write succeeded; the artifact of a professor
\* that is not in the new mapping, or whose build or open failed, stays as
\* the run found it, and one whose write failed is left incomplete.
C12_FullOverwrite ==
    pPc = "done" =>
        /\ AggregateIsNew
        /\ \A id \in ScopusIds :
             IF ~DictHas(pCache, id) THEN pGraphs[id] = pPrev.graphs[id]
             ELSE CASE OutcomeOf(id) = "written" -> pGraphs[id] = NewArtifact(id)
                    [] OutcomeOf(id) = "write_failed" -> pGraphs[id] = Truncated
                    [] OTHER -> pGraphs[id] = pPrev.graphs[id]

\* a completed run over a store left by an earlier run: one professor's
\* artifact was replaced, the other professor was not fetched this time and
\* its earlier artifact is still there
C12_Witness ==
    /\ pPc = "done"
    /\ pPrev.aggregate.exists
    /\ pAggregate # pPrev.aggregate
    /\ \E id \in ScopusIds :
         /\ DictHas(pCache, id) /\ OutcomeOf(id) = "written"
         /\ pGraphs[id] = NewArtifact(id) /\ pGraphs[id] # pPrev.graphs[id]
    /\ \E id \in ScopusIds :
         /\ ~DictHas(pCache, id)
         /\ pGraphs[id].exists /\ pGraphs[id] = pPrev.graphs[id]

\* the store holds what the run found, in every file
StoreIsPrevious == pAggregate = pPrev.aggregate /\ pGraphs = pPrev.graphs

\* the store holds the complete content of this run, in every file
StoreIsNew ==
    /\ AggregateIsNew
    /\ \A id \in ScopusIds :
         pGraphs[id] = IF DictHas(pCache, id) THEN NewArtifact(id) ELSE Absent

\* C13 as stated: at every point of a run, also of a run interrupted
\* part-way, the store holds either the complete content of the previous
\* run or the complete content of the new run.
C13_Original == pPc # "idle" => (StoreIsPrevious \/ StoreIsNew)

\* C13, amended: a run replaces the store file by file, not atomically.  At
\* every point of a run, also of an interrupted one, each file is as the run
\* found it, or opened and not yet written in full, or holds the complete
\* content this run wrote for it; no file is touched before the aggregate
\* file is opened, no artifact before the aggregate file is complete, and
\* from then on the aggregate file holds the complete new mapping.  A reader
\* may thus see new files beside previous ones, or an incomplete file.
C13_FileByFile ==
    pPc # "idle" =>
        /\ pAggregate \in {pPrev.aggregate, Unreadable} \/ AggregateIsNew
        /\ \A id \in ScopusIds :
             \/ pGraphs[id] \in {pPrev.graphs[id], Truncated}
             \/ DictHas(pCache, id) /\ pGraphs[id] = NewArtifact(id)
        /\ pPc \in {"fetched", "no_data"} => StoreIsPrevious
        /\ pPc \in {"fetched", "no_data", "saving", "saved"} => pGraphs = pPrev.graphs
        /\ pPc \in {"saved", "loop", "writing", "done"} => AggregateIsNew

\* a run interrupted in the loop: the aggregate file and one artifact are
\* new, another artifact is still the previous run's
C13_Witness ==
    /\ pPc = "interrupted"
    /\ AggregateIsNew
    /\ \E id \in ScopusIds :
         DictHas(pCache, id) /\ pGraphs[id] = NewArtifact(id)
    /\ \E id \in ScopusIds :
         /\ DictHas(pCache, id) /\ pGraphs[id] # NewArtifact(id)
         /\ pGraphs[id].exists /\ pGraphs[id] = pPrev.graphs[id]

----------------------------------------------------------------------------
(* Claims about failures at the serving layer *)

\* a file that is there but cannot be parsed
IsUnreadable(file) == file.exists /\ ~file.json

\* C14: at the serving layer a failure to obtain cached data, be the file
\* missing or present but unreadable, surfaces as the empty 'absence of
\* data' state and never as a propagated exception: a Load Data click
\* raises nothing, and when the file it reads is missing or unreadable the
\* session is left as it was.
C14_AbsenceOfData ==
    lastLoad.called =>
        /\ ~lastLoad.result.raised
        /\ (\/ IsUnreadable(lastLoad.topics)
            \/ ~lastLoad.topics.exists /\ IsUnreadable(lastLoad.scopus)
            \/ ~lastLoad.topics.exists /\ ~lastLoad.scopus.exists)
           => Session = lastLoad.before

----------------------------------------------------------------------------
(* Claims about the pages *)

\* T is one of the buckets of the record
IsBucket(prof, T) ==
    Has(prof, "topic_groups") /\ T \in DictKeys(prof.topic_groups)

\* the papers of the bucket labelled T (same) or of all the buckets not
\* labelled T (~same), bucket by bucket
RECURSIVE PapersOfBuckets(_, _, _)
PapersOfBuckets(tg, T, same) ==
    IF tg = <<>> THEN <<>>
    ELSE (IF (Head(tg).k = T) = same THEN Head(tg).v ELSE <<>>)
         \o PapersOfBuckets(Tail(tg), T, same)

\* T occurs in the title, whatever the case of the letters
TitleMentions(paper, T) ==
    \E k \in 0..(Len(Get(paper, "title", <<>>)) - Len(T)) :
        \A j \in 1..Len(T) : LowerChar(paper.title[k + j]) = LowerChar(T[j])

\* C15: for a professor with topic_groups and a selected topic T that is one
\* of its buckets, the Filter by Topic page shows exactly the papers of
\* bucket T and its 'other' view exactly the papers of all other buckets;
\* only when T is not a bucket of the professor are the papers filtered by a
\* case-insensitive substring match of T against the titles of all its
\* papers.
C15_TopicFilter ==
    wView.page = "topic_papers" =>
        LET prof == wView.prof
            T == wView.topic
            all == get_all_papers(prof).val
        IN  /\ wView.view.branch = "title" <=> ~IsBucket(prof, T)
            /\ IsBucket(prof, T) =>
                 /\ wView.view.shown = PapersOfBuckets(prof.topic_groups, T, TRUE)
                 /\ wView.view.other = PapersOfBuckets(prof.topic_groups, T, FALSE)
            /\ ~IsBucket(prof, T) =>
                 /\ wView.view.shown = SelectSeq(all, LAMBDA p : TitleMentions(p, T))
                 /\ wView.view.other = SelectSeq(all, LAMBDA p : ~TitleMentions(p, T))

\* the professor with three papers under NLP and five under two other
\* topics is opened under NLP: three papers are shown and five are 'other',
\* none of them for a title that mentions NLP
C15_Witness ==
    /\ wView.page = "topic_papers"
    /\ wView.topic = TopicNLP
    /\ IsBucket(wView.prof, TopicNLP)
    /\ Len(wView.prof.topic_groups) = 3
    /\ Len(wView.view.shown) = 3
    /\ Len(wView.view.other) = 5
    /\ \A i \in 1..3 : ~TitleMentions(wView.view.shown[i], TopicNLP)

\* C15, the fallback: a professor with topic_groups is opened under a topic
\* that is none of its buckets, and a paper is shown for its title
C15_FallbackSeen ==
    /\ wView.page = "topic_papers"
    /\ Has(wView.prof, "topic_groups")
    /\ ~IsBucket(wView.prof, wView.topic)
    /\ Len(wView.view.shown) = 1 /\ Len(wView.view.other) = 1

\* the topic labels of a professor
TopicsOf(prof) == {prof.topics[i] : i \in 1..Len(Get(prof, "topics", <<>>))}

\* text occurs in str, whatever the case of the letters
Mentions(str, text) ==
    \E k \in 0..(Len(str) - Len(text)) :
        \A j \in 1..Len(text) : LowerChar(str[k + j]) = LowerChar(text[j])

\* C16: on the All Professors page a professor is among the rows shown if
\* and only if the search text is a case-insensitive substring of its name
\* or of at least one of the labels of its topic list.
C16_SearchAllTopics ==
    wView.page = "all_professors" =>
        \A i \in 1..Len(wProfessors) :
            (\E r \in 1..Len(wView.rows) : wView.rows[r].ScopusId = wProfessors[i].k)
            <=> \/ Mentions(wProfessors[i].v.name, wView.search)
                \/ \E label \in TopicsOf(wProfessors[i].v) : Mentions(label, wView.search)

----------------------------------------------------------------------------
(* Claims about the denormalized counts *)

\* the citation counts of a paper list
CitationsOf(papers) == [i \in 1..Len(papers) |-> Get(papers[i], "citations", 0)]

\* C17: for every professor the fetch stores in the cache, the citation
\* total the serving layer displays (the stored citation_count) equals the
\* sum of the citation counts of the professor's papers, and document_count,
\* like the displayed paper count, equals the number of papers in its paper
\* collection.
C17_DenormalizedCounts ==
    \A i \in 1..Len(aCache) :
        LET prof == aCache[i].v
            papers == get_all_papers(prof).val
        IN  /\ QuickStats(prof).Citations = SumSeq(CitationsOf(papers))
            /\ prof.citation_count = SumSeq(CitationsOf(papers))
            /\ prof.document_count = Len(papers)
            /\ QuickStats(prof).Papers = Len(papers)

\* a professor was fetched whose answer held an error entry, and one whose
\* papers have 50 and 2 citations: the total displayed is 52
C17_Witness ==
    /\ aReturn.how = "completed"
    /\ \E i \in 1..Len(aCache) :
         /\ CitationsOf(aCache[i].v.papers) = <<2, 50>>
         /\ QuickStats(aCache[i].v).Citations = 52
    /\ \E i \in 1..Len(aCache) :
         /\ Len(aCache[i].v.papers) = 1
         /\ aCache[i].v.document_count = 1

\* C18: in every aggregate file written by save_scopus_cache,
\* metadata.professor_count equals the number of entries of the professors
\* mapping, metadata.total_papers the sum of the professors' paper counts,
\* and metadata.total_citations the sum of their citation counts.
C18_MetadataTotals ==
    (pPc # "idle" /\ pAggregate.exists /\ pAggregate.json) =>
        LET doc == pAggregate.doc
            profs == doc.professors
        IN  /\ doc.metadata.professor_count = Cardinality(DictKeys(profs))
            /\ doc.metadata.total_papers =
                 SumSeq([i \in 1..Len(profs) |-> get_paper_count(profs[i].v).val])
            /\ doc.metadata.total_citations =
                 SumSeq([i \in 1..Len(profs) |-> QuickStats(profs[i].v).Citations])

\* this run has written the aggregate file for two professors, three papers
\* and 102 citations
C18_Witness ==
    /\ pPc \in {"saved", "loop", "writing", "done"}
    /\ AggregateIsNew
    /\ pAggregate.doc.metadata.professor_count = 2
    /\ pAggregate.doc.metadata.total_papers = 3
    /\ pAggregate.doc.metadata.total_citations = 102

----------------------------------------------------------------------------
(* Claims about the assembler's input *)

\* C19: the assembler consumes normalized records: for a professor record in
\* either shape (with an identifier) the graph holds one Paper node and one
\* Authored edge for each paper of the normalizer's paper list of the
\* record, so also for papers stored only under topic_groups.
C19_NormalizedPapers ==
    InputHasKey =>
        /\ ~gResult.raised
        /\ LET g == gResult.val
               papers == get_all_papers(gInput.rec).val
           IN  /\ Cardinality(NodesOfType(g, "paper")) = Len(papers)
               /\ Cardinality({e \in g.edges : e.title = "authored"}) = Len(papers)

----------------------------------------------------------------------------
(* Claims about the delays of the batch loops *)

\* the calls and sleeps of a loop: the trace without the call made before
\* the loop (the connection test, the staff list request)
LoopEvents(events) == SelectSeq(events, LAMBDA ev : ev.e \in {"call", "sleep"})

NumberOf(kind, events) == Len(SelectSeq(events, LAMBDA ev : ev.e = kind))

\* every call that has a successor is followed by a sleep, and every sleep
\* directly follows a call
Spaced(events) ==
    /\ \A i \in 1..(Len(events) - 1) :
         events[i].e = "call" => events[i + 1].e = "sleep"
    /\ \A i \in 1..Len(events) :
         events[i].e = "sleep" => (i > 1 /\ events[i - 1].e = "call")

\* the trace of a loop that made `done` of `total` calls
LoopDelays(events, done, total) ==
    /\ Spaced(events)
    /\ NumberOf("call", events) = done
    /\ NumberOf("sleep", events) = IF done < total THEN done
                                  ELSE IF total = 0 THEN 0 ELSE total - 1
    /\ (done = total /\ total > 0) => events[Len(events)].e = "call"

\* C20: in both batch loops a delay occurs between any two consecutive
\* external calls of the loop, whether the earlier call succeeded or failed,
\* and no delay follows the last call.
C20_DelayBetweenCalls ==
    /\ aPc = "loop" => LoopDelays(LoopEvents(aEvents), aI, Len(aWith))
    /\ aReturn.how = "completed" =>
         LoopDelays(LoopEvents(aEvents), Len(aWith), Len(aWith))
    /\ kPc \in {"loop", "returned"} =>
         LoopDelays(LoopEvents(kEvents), kI, Len(kStaff))

\* a completed fetch of two professors whose first call failed: call, sleep,
\* call
C20_Witness ==
    /\ aReturn.how = "completed"
    /\ Len(aWith) = 2
    /\ aWith[1].scopus_id # aWith[2].scopus_id
    /\ aFailed = 1
    /\ DictKeys(aCache) = {aWith[2].scopus_id.val}
    /\ LoopEvents(aEvents) =
         <<CallEvent(aWith[1].scopus_id), SleepEvent, CallEvent(aWith[2].scopus_id)>>

\* C20, the scrape: a completed scrape of three staff members whose first
\* profile request failed
C20_ScrapeSeen ==
    /\ kPc = "returned"
    /\ Len(kStaff) = 3
    /\ kData[1].scopus_id = None /\ kData[2].scopus_id # None
    /\ NumberOf("sleep", kEvents) = 2

----------------------------------------------------------------------------
(* Claims about the Professor node's identifier *)

\* the synthetic placeholder identifier
Placeholder == Str(<<"p", "r", "o", "f", "_", "1">>)

\* C21: build_professor_graph creates exactly one Professor node, named by
\* the record's scopus_id, and when the record has no external key (the
\* field is absent, empty or null) it names the node by the synthetic
\* placeholder instead of failing.
C21_ProfessorNode ==
    gInput.called =>
        /\ ~gResult.raised
        /\ LET g == gResult.val
               profs == NodesOfType(g, "professor")
               key == Get(gInput.rec, "scopus_id", None)
           IN  /\ Cardinality(profs) = 1
               /\ \A i \in profs :
                    g.nodes[i].k = IF Truthy(key) THEN key ELSE Placeholder

----------------------------------------------------------------------------
(* Claims about the Paper node's label, tooltip and link *)

\* the node add_paper_node made of the i-th paper
AddedNode(i) == DictGet(gGraph.nodes, PaperId(Str(<<"7">>), i - 1))

\* C22: a Paper node's display label is the title when the title has at most
\* 30 characters and the first 30 characters followed by '...' otherwise; the
\* tooltip always contains the full title; the node carries an external link
\* exactly when the paper's DOI is non-empty.
C22_PaperLabel ==
    \A i \in 1..sNext :
        LET paper == sPapers[i]
            node == AddedNode(i)
        IN  /\ node.label = IF Len(paper.title) <= 30
                            THEN paper.title
                            ELSE SubSeq(paper.title, 1, 30) \o <<".", ".", ".">>
            /\ Contains(paper.title, node.title)
            /\ Has(node, "url") <=> paper.doi # <<>>

\* a 31-character title with a DOI was cut and linked, a 30-character title
\* without a DOI was kept whole and not linked
C22_Witness ==
    /\ sNext = 2
    /\ Len(sPapers[1].title) = 31 /\ sPapers[1].doi # <<>>
    /\ Len(AddedNode(1).label) = 33 /\ Has(AddedNode(1), "url")
    /\ Len(sPapers[2].title) = 30 /\ sPapers[2].doi = <<>>
    /\ AddedNode(2).label = sPapers[2].title /\ ~Has(AddedNode(2), "url")

----------------------------------------------------------------------------
(* Claims about a load that follows a pipeline run *)

\* the load returned the mapping and the metadata this run wrote
ReturnedThisRun(loaded) ==
    /\ ~loaded.raised
    /\ loaded.val.professors = Dict(AsFetched(pCache))
    /\ loaded.val.metadata.tag = "dict"
    /\ Get(loaded.val.metadata.val, "fetched_at", "never") = "now"
    /\ Get(loaded.val.metadata.val, "professor_count", 0) = Len(pCache)

----------------------------------------------------------------------------
(* Claims about a run that fetches nothing *)

\* the aggregate file and every artifact are as the run found them
StoreUntouched == pAggregate = pPrev.aggregate /\ pGraphs = pPrev.graphs

\* C24: a run in which no professor is fetched successfully (the API key is
\* missing, the connection test fails, no professor has a Scopus ID, or
\* every fetch fails) writes nothing: the aggregate file and every artifact
\* keep exactly their content.
C24_NothingFetchedNothingWritten ==
    aCache = <<>> => StoreUntouched

\* over the store of an earlier run, both professors were tried and both
\* fetches failed, the run ended, and the store is as it was
C24_Witness ==
    /\ pPc = "no_data"
    /\ aReturn.how = "completed" /\ aFailed = 2 /\ aSuccessful = 0
    /\ pPrev.aggregate.exists
    /\ StoreUntouched

----------------------------------------------------------------------------
(* Claims about the order of the writes of a run *)

\* this run opened or wrote the artifact of id
TouchedByRun(id) ==
    \/ pGraphs[id] # pPrev.graphs[id]
    \/ \E i \in 1..Len(pLog) :
         pLog[i].id = id /\ pLog[i].outcome \in {"written", "write_failed"}

\* C25: within one run the aggregate file is written before any artifact, so
\* at every point, also after an interruption, every artifact written by
\* this run belongs to a professor present in the aggregate file on disk.
C25_AggregateBeforeArtifacts ==
    pPc # "idle" =>
        \A id \in ScopusIds :
            TouchedByRun(id) =>
                /\ AggregateIsNew
                /\ DictHas(pAggregate.doc.professors, id)

\* the run was interrupted while it wrote the second artifact: the first is
\* written, the second is cut short, and both professors are in the
\* aggregate file
C25_Witness ==
    /\ pPc = "interrupted"
    /\ Len(pCache) = 2 /\ Len(pLog) = 1 /\ pLog[1].outcome = "written"
    /\ pGraphs[pCache[2].k] = Truncated
    /\ \A id \in ScopusIds : TouchedByRun(id)
    /\ AggregateIsNew

----------------------------------------------------------------------------
(* Claims about the mapping fetch_all_scopus_data returns *)

\* the Scopus IDs for which the loop printed Success!
SucceededIds ==
    {aEvents[i].id.val : i \in {j \in 1..Len(aEvents) : aEvents[j].e = "success"}}

\* every record of the mapping is one of a professor with a Scopus ID,
\* stored under that ID
OnlyWithScopus(cache) ==
    \A i \in 1..Len(cache) :
        /\ Truthy(Get(cache[i].v, "scopus_id", None))
        /\ cache[i].v.scopus_id.val = cache[i].k
        /\ \E j \in 1..Len(aProfessors) :
             Get(aProfessors[j], "scopus_id", None) = cache[i].v.scopus_id

\* no Scopus ID occurs twice among the professors fetched
NoRepeatedId ==
    \A i, j \in 1..Len(aWith) : aWith[i].scopus_id = aWith[j].scopus_id => i = j

----------------------------------------------------------------------------
(* Claims about the session state over a sequence of loads *)

\* the latest load found no data: it raised, or returned an empty mapping
FoundNoData == lastLoad.result.raised \/ ~DictTruthy(lastLoad.result.val.professors)

\* C27: after any sequence of Load Data clicks, data_loaded is true exactly
\* when some earlier load returned a non-empty professor mapping, and
\* professors_data and metadata equal the result of the most recent load that
\* returned a non-empty mapping; a load that finds no data leaves all three
\* unchanged.
C27_SessionFollowsLoads ==
    /\ ~lastLoad.called => Session = InitialSession
    /\ lastLoad.called =>
         /\ ssLoaded <=> lastLoad.good.some
         /\ lastLoad.good.some =>
              /\ ssProfessors = lastLoad.good.professors.val
              /\ ssMetadata = lastLoad.good.metadata.val
         /\ ~lastLoad.good.some => Session = InitialSession
         /\ FoundNoData => Session = lastLoad.before

\* a load returned a professor, the file was removed or cut short, and the
\* load that followed found no data and left the loaded session as it was
C27_Witness ==
    /\ lastLoad.called
    /\ FoundNoData
    /\ lastLoad.good.some
    /\ ssLoaded /\ ssProfessors # <<>>
    /\ ssProfessors = lastLoad.good.professors.val
    /\ lastLoad.before = Session

----------------------------------------------------------------------------
(* Claims about one builder building professor after professor *)

\* the position in the mapping of the professor built most recently
LastBuilt == IF pPc = "writing" THEN pI + 1 ELSE pI

\* the identifiers a graph of the professor stored under id may hold
OwnIds(id, n) ==
    {Str(id)} \cup {TopicId(Str(id), i, <<>>) : i \in 0..n} \cup {PaperId(Str(id), i) : i \in 0..n}

\* C28: when one builder instance builds a sequence of professors, each
\* graph contains only that professor's nodes and edges: nothing of an
\* earlier professor's graph carries over, also when an earlier build failed
\* part-way.
C28_NoCarryOver ==
    (pPc \in {"loop", "writing", "done"} /\ LastBuilt >= 1) =>
        LET id == pCache[LastBuilt].k
            g == pBuilder
            own == OwnIds(id, Len(g.nodes))
        IN  /\ \A i \in 1..Len(g.nodes) : g.nodes[i].k \in own
            /\ \A e \in g.edges : e.ends \subseteq own
            /\ g = build_professor_graph(EmptyGraph, pCache[LastBuilt].v).graph
            /\ pPc = "writing" => pHtml = GenerateHtml(g)

\* the build for the first professor failed after its graph was made, and
\* the artifact of the second professor was then built and written
C28_Witness ==
    /\ pPc = "done"
    /\ Len(pCache) = 2 /\ Len(pLog) = 2
    /\ pLog[1].outcome = "build_failed" /\ pLog[2].outcome = "written"
    /\ Len(pBuilder.nodes) > 1
    /\ pBuilder.nodes[1].k = Str(pCache[2].k)
    /\ pGraphs[pCache[2].k] = Artifact(GenerateHtml(pBuilder))

----------------------------------------------------------------------------
(* Claims about the two normalizer functions together *)

\* the papers of list from position a + 1 to position a + n
Slice(list, a, n) == SubSeq(list, a + 1, a + n)

\* list is the buckets of tg one after the other, in bucket order
IsBucketsInOrder(list, tg) ==
    LET sizes == BucketSizes(tg)
    IN  /\ Len(list) = SumSeq(sizes)
        /\ \A i \in 1..Len(tg) :
             Slice(list, SumSeq(SubSeq(sizes, 1, i - 1)), sizes[i]) = tg[i].v

\* C29: for every record, whatever combination of papers and topic_groups
\* it carries, get_paper_count(record) = len(get_all_papers(record)); for a
\* record with topic_groups only, get_all_papers is the concatenation of the
\* buckets in bucket order.
C29_CountIsLength ==
    /\ nCalled = {"count", "papers"} =>
         /\ ~nCount.raised /\ ~nPapers.raised
         /\ nCount.val = Len(nPapers.val)
    /\ ("papers" \in nCalled /\ Has(nRec, "topic_groups") /\ ~Has(nRec, "papers")) =>
         /\ ~nPapers.raised
         /\ IsBucketsInOrder(nPapers.val, nRec.topic_groups)

\* both functions were applied to a topic_groups-only record whose two
\* buckets differ: three papers, the first bucket's first
C29_Witness ==
    /\ nCalled = {"count", "papers"}
    /\ Has(nRec, "topic_groups") /\ ~Has(nRec, "papers")
    /\ Len(nRec.topic_groups) = 2
    /\ Len(nRec.topic_groups[1].v) = 1 /\ Len(nRec.topic_groups[2].v) = 2
    /\ nRec.topic_groups[1].v[1] # nRec.topic_groups[2].v[1]
    /\ nCount = Ok(3)
    /\ nPapers.val = nRec.topic_groups[1].v \o nRec.topic_groups[2].v

----------------------------------------------------------------------------
(* Claims about the title-match fallback *)

\* how often paper occurs in list
Occurrences(paper, list) == Len(SelectSeq(list, LAMBDA p : p = paper))

\* C30: in the title-match fallback the 'related' and the 'other papers'
\* lists partition the professor's full paper list: every paper is in
\* exactly one of them, and their counts add up to the 'All Papers' count
\* displayed.
C30_FallbackPartition ==
    (wView.page = "topic_papers" /\ wView.view.branch = "title") =>
        LET all == get_all_papers(wView.prof).val
            related == wView.view.shown
            other == wView.view.other
        IN  /\ wView.view.count = Len(all)
            /\ Len(related) + Len(other) = wView.view.count
            /\ \A i \in 1..Len(all) :
                 /\ Occurrences(all[i], related) + Occurrences(all[i], other)
                      = Occurrences(all[i], all)
                 /\ Occurrences(all[i], related) = 0 \/ Occurrences(all[i], other) = 0
            /\ \A i \in 1..Len(related) : Occurrences(related[i], all) > 0
            /\ \A i \in 1..Len(other) : Occurrences(other[i], all) > 0

\* a professor with a flat list of two papers is opened under NLP: one
\* paper's title mentions it and is listed as related, the other is listed
\* among the other papers
C30_Witness ==
    /\ wView.page = "topic_papers" /\ wView.view.branch = "title"
    /\ ~Has(wView.prof, "topic_groups")
    /\ wView.topic = TopicNLP
    /\ wView.view.count = 2
    /\ wView.view.shown = <<PaperY>>
    /\ wView.view.other = <<PaperX>>

====
